---- MODULE Spec2Model ----
(***************************************************************************)
(* The canvas interaction engine of app/components/canva.tsx (the Canva    *)
(* component): the shared collections images / shapes / lines, the local   *)
(* selection, tool and gesture flags, the undo/redo history, the clipboard *)
(* and the in-flight upload of a dropped file.                             *)
(*                                                                         *)
(* One action is one event handler run to completion.  A handler reads the *)
(* values of the render that created it (images, shapes, lines, viewport,  *)
(* currentIndex, stateRef.current), so inside an action every read is of   *)
(* the unprimed state: a storage mutation made by the handler is not       *)
(* visible to the rest of the same handler.  React re-renders between two  *)
(* events, so the next handler reads the new state.  The part of           *)
(* handleDrop after `await uploadToS3` is an action of its own that reads  *)
(* what the closure captured at the drop.                                  *)
(*                                                                         *)
(* Coordinates are world units rounded to integers.  Entity fields that no *)
(* handler reads (color, strokeWidth, line.width, line.tool) are left out. *)
(***************************************************************************)
EXTENDS Integers, Sequences, FiniteSets, TLC

(***************************************************************************)
(* Program constants                                                       *)
(***************************************************************************)
IMAGE_WIDTH == 200
IMAGE_HEIGHT == 200
\* handleMouseUp: a shape with |width| < 5 and |height| < 5 is discarded
MIN_DRAG == 5
\* groupBBox: padding around the selected entities
BBOX_PADDING == 5
\* calculateArrowPoints: headlen
ARROW_HEAD == 20
\* INITIAL_SCALE, in percent
INITIAL_SCALE == 100
\* CanvasControls: PAN_AMOUNT
PAN_AMOUNT == 50
\* MIN_SCALE, MAX_SCALE, in percent
MIN_SCALE == 50
MAX_SCALE == 300
\* ZOOM_SPEED, in percent
ZOOM_SPEED == 6
\* throttle(..., 16): milliseconds
THROTTLE_LIMIT == 16
\* CURSOR_TIMEOUT: milliseconds
CURSOR_TIMEOUT == 5000
\* initializeStorage: the grid of the default images
IMAGE_GAP == 1000
GRID_COLUMNS == 3

(***************************************************************************)
(* Bounds of the model (used by the specifications, not by the handlers)   *)
(***************************************************************************)
\* entities in the three collections together
MaxEntities == 2
\* entries of the history
MaxHist == 2
\* Date.now() ranges over 0..MaxTime
MaxTime == 1
\* values drawn from Math.random()
MaxRnd == 2
\* storage operations not yet delivered to the remote participant when a handler starts
MaxPending == 0
\* drag-move events of one group drag
MaxDragSteps == 2
\* presses of a pan button in one direction, from the initial viewport
MaxPan == 1
\* points of a freehand line
MaxStroke == 2
\* entities selected at once in SpecPaste
MaxSelected == 2
\* gestures (drawing, group drag) of one behaviour of SpecDraw and of SpecGroup
MaxGestures == 1
\* runs of initializeStorage, counted by the entries of its log
MaxInitRuns == 2
\* |viewport.x| and |viewport.y| before a wheel event of SpecView
MaxView == 50
\* Date.now() of SpecThrottle ranges over 0..MaxClock, in steps of half a throttle window
MaxClock == 32
\* Date.now() of SpecView ranges over 0..MaxViewClock, in steps of a throttle window
MaxViewClock == 32
\* Date.now() of SpecPresence ranges over 0..MaxPresenceClock, in steps of half a
\* CURSOR_TIMEOUT
MaxPresenceClock == 10000
\* committed drops of SpecView
MaxViewDrops == 2

(***************************************************************************)
(* Arithmetic helpers                                                      *)
(***************************************************************************)
Abs(n) == IF n < 0 THEN -n ELSE n

Max2(a, b) == IF a >= b THEN a ELSE b

Min2(a, b) == IF a <= b THEN a ELSE b

\* Math.sqrt, rounded down
ISqrt(n) == CHOOSE r \in 0..(n + 1) : r * r <= n /\ (r + 1) * (r + 1) > n

\* a product by a coefficient given in thousandths, rounded to the nearest unit
Milli(n) == (n + 500) \div 1000

SeqMap(Op(_), s) == [i \in 1..Len(s) |-> Op(s[i])]

RECURSIVE SeqFilter(_, _)
SeqFilter(Test(_), s) ==
    IF s = <<>> THEN <<>>
    ELSE IF Test(Head(s)) THEN <<Head(s)>> \o SeqFilter(Test, Tail(s))
    ELSE SeqFilter(Test, Tail(s))

Range(s) == {s[i] : i \in 1..Len(s)}

\* Array.prototype.includes
Includes(s, e) == \E i \in 1..Len(s) : s[i] = e

\* points.map((coord, index) => index % 2 === 0 ? coord + dx : coord + dy)
\* (index is 0-based in the code and 1-based here)
TranslatePoints(pts, dx, dy) ==
    [i \in 1..Len(pts) |-> IF i % 2 = 1 THEN pts[i] + dx ELSE pts[i] + dy]

(***************************************************************************)
(* Entities                                                                *)
(***************************************************************************)
\* an id without its random part
MkIdByTime(k, t, r) == [k |-> k, t |-> t, r |-> 0]

\* an id: `${k}-${t}` or `${k}-${t}-${r}`; r = 0 stands for "no random part"
MkId(k, t, r) == [k |-> k, t |-> t, r |-> r]

\* shape.points === undefined
NoPoints == <<>>

PointShapeTypes == {"star", "arrow", "line", "triangle"}

ShapeTools == {"rectangle", "circle", "line", "arrow", "star", "triangle"}

isShapeTool(tool) == tool \in ShapeTools

(***************************************************************************)
(* Geometry formulas                                                       *)
(***************************************************************************)
\* const numPoints = 5
NUM_POINTS == 5

\* 1000 * cos and 1000 * sin of i * 36 - 90 degrees, i = 0..9
Cos36 == <<0, 588, 951, 951, 588, 0, -588, -951, -951, -588>>

Sin36 == <<-1000, -809, -309, 309, 809, 1000, 809, 309, -309, -809>>

\* vertex i (0..9) of the star: outer radius size on even i, inner 0.4 * size on odd i
StarVertex(cx, cy, size, i) ==
    LET r10 == IF i % 2 = 0 THEN 10 * size ELSE 4 * size
    IN  << cx + Milli((r10 * Cos36[i + 1]) \div 10),
           cy + Milli((r10 * Sin36[i + 1]) \div 10) >>

RECURSIVE StarLoop(_, _, _, _, _)
\* the loop from iteration i on: each iteration pushes an outer and an inner vertex
StarLoop(cx, cy, size, i, points) ==
    IF i < NUM_POINTS
    THEN StarLoop(cx, cy, size, i + 1,
                  points \o StarVertex(cx, cy, size, 2 * i)
                         \o StarVertex(cx, cy, size, 2 * i + 1))
    ELSE points

RECURSIVE StarLoopOuter(_, _, _, _, _)
\* a loop that pushes the outer vertices only
StarLoopOuter(cx, cy, size, i, points) ==
    IF i < NUM_POINTS
    THEN StarLoopOuter(cx, cy, size, i + 1, points \o StarVertex(cx, cy, size, 2 * i))
    ELSE points

calculateStarPointsOuterOnly(cx, cy, size) == StarLoopOuter(cx, cy, size, 0, <<>>)

calculateStarPoints(cx, cy, size) == StarLoop(cx, cy, size, 0, <<>>)

calculateTrianglePoints(x, y, width, height) ==
    << x + width \div 2, y, x + width, y + height, x, y + height >>

\* headlen * cos(angle -/+ 30) and headlen * sin(angle -/+ 30) by the addition
\* formulas, cos 30 = 0.866 and sin 30 = 0.5; atan2(0, 0) = 0
calculateArrowPoints(fx, fy, tx, ty) ==
    LET dx == tx - fx
        dy == ty - fy
        len == ISqrt(dx * dx + dy * dy)
        ca == IF len = 0 THEN 1 ELSE dx
        sa == IF len = 0 THEN 0 ELSE dy
        d == IF len = 0 THEN 1 ELSE len
        cm == Milli((ARROW_HEAD * (866 * ca + 500 * sa)) \div d)
        sm == Milli((ARROW_HEAD * (866 * sa - 500 * ca)) \div d)
        cp == Milli((ARROW_HEAD * (866 * ca - 500 * sa)) \div d)
        sp == Milli((ARROW_HEAD * (866 * sa + 500 * ca)) \div d)
    IN  << fx, fy, tx, ty, tx - cm, ty - sm, tx, ty, tx - cp, ty - sp >>

(***************************************************************************)
(* State                                                                   *)
(***************************************************************************)
VARIABLES
    images,         \* storage.images as the local client reads it
    shapes,         \* storage.shapes
    lines,          \* storage.lines
    pending,        \* storage.set operations not yet delivered to the remote participant
    observed,       \* the three collections as the remote participant reads them
    selectedIds,    \* useState<string[]>
    isSelecting,    \* useState(false)
    selectionStart, \* useRef: <<>> for null, else <<[x, y]>>
    selectionRect,  \* useState: <<>> for null, else <<[x, y, width, height]>>
    activeTool,     \* useState<ToolType>("select")
    isDrawing,      \* useRef(false)
    history,        \* useState<CanvasState[]>([])
    currentIndex,   \* useState(-1)
    viewport,       \* useState<ViewportState>, scale in percent
    inThrottle,     \* the flag of throttle()
    throttleSet,    \* when throttle() last set its timer: <<>> for never, else <<Date.now()>>
    clipboard,      \* localStorage 'canvas_clipboard': <<>> for none, else <<record>>
    upload,         \* the handleDrop call suspended at `await uploadToS3`: <<>> or <<closure>>
    now,            \* Date.now()
    rnd,            \* how many values Math.random() has returned (each one is new)
    lastOp,         \* which handler ran last, and on which branch
    gesture,        \* the drawing gesture in progress, as it was at its pointer-down
    drag,           \* the last group-drag step: delta, and the collections before and after
    rootKeys,       \* the keys of the storage root that hold a value
    initLog,        \* what the runs of initializeStorage did, in order
    backupObject,   \* S3 object room-backups/<roomId>.json: <<>> for none, else <<state>>
    backupDeps,     \* [images, shapes, lines] of the last run of the backup effect, or <<>>
    backupTimers,   \* the setTimeout callbacks of the backup effect not yet run
    backupCalls,    \* how many createRoomBackup calls this client has made
    others,         \* useOthers(): the presence of the remote participant, <<>> for none
    othersWithTimestamp, \* the memoized filter: TRUE when the remote cursor is rendered
    marqueeBase     \* selectedIds as the last pointer-down on the empty stage left it

vars == << images, shapes, lines, pending, observed, selectedIds, isSelecting,
           selectionStart, selectionRect, activeTool, isDrawing, history,
           currentIndex, viewport, inThrottle, throttleSet, clipboard, upload, now, rnd,
           lastOp, gesture, drag, rootKeys, initLog, backupObject, backupDeps,
           backupTimers, backupCalls, others, othersWithTimestamp, marqueeBase >>

storageVars == << images, shapes, lines, pending >>

selectVars == << selectedIds, isSelecting, selectionStart, selectionRect >>

historyVars == << history, currentIndex >>

viewVars == << viewport, inThrottle, throttleSet >>

ghostVars == << gesture, drag >>

backupVars == << backupObject, backupDeps, backupTimers, backupCalls >>

presenceVars == << others, othersWithTimestamp >>

hostVars == << rootKeys, initLog, backupVars, presenceVars >>

envVars == << hostVars, marqueeBase >>

Tools == {"select", "hand", "pen"} \cup ShapeTools

NoGesture == [phase |-> "none"]

NoDrag == [phase |-> "none"]

\* another handler ran: a gesture in progress is no longer a plain down-move-up
Dirty(g) == IF g.phase = "drawing" THEN [g EXCEPT !.clean = FALSE] ELSE NoGesture

Model == [images |-> images, shapes |-> shapes, lines |-> lines]

\* the branches of the handlers that call addHistoryEntry
CommitOps ==
    {"drop-url", "upload-ok", "delete", "paste", "mouseup-keep", "mouseup-discard",
     "group-drag-end", "entity-drag-end"}

\* an undo took effect right after a commit: the collections it replaced and the
\* handler that had committed
Undone(g) ==
    IF g.phase # "drawing" /\ lastOp \in CommitOps
    THEN [phase |-> "undone", model |-> Model, after |-> lastOp]
    ELSE Dirty(g)

TotalEntities == Len(images) + Len(shapes) + Len(lines)

AllIds == {images[i].id : i \in 1..Len(images)}
            \cup {shapes[i].id : i \in 1..Len(shapes)}
            \cup {lines[i].id : i \in 1..Len(lines)}

(***************************************************************************)
(* Shared storage: updateImages / updateShapes / updateLines               *)
(***************************************************************************)
Op(c, v) == [coll |-> c, val |-> v]

RECURSIVE LastVal(_, _, _)
\* the value collection c has after the storage.set calls ops, made in that order
LastVal(c, ops, old) ==
    IF ops = <<>> THEN old
    ELSE LastVal(c, Tail(ops), IF Head(ops).coll = c THEN Head(ops).val ELSE old)

\* a handler that calls storage.set for each of ops, in order: the local replica has
\* them at once, the remote participant gets them one by one
Mutate(ops) ==
    /\ images' = LastVal("images", ops, images)
    /\ shapes' = LastVal("shapes", ops, shapes)
    /\ lines' = LastVal("lines", ops, lines)
    /\ pending' = pending \o ops

\* the sync service hands the next operation to the remote participant
Deliver ==
    /\ pending # <<>>
    /\ observed' = [observed EXCEPT ![Head(pending).coll] = Head(pending).val]
    /\ pending' = Tail(pending)
    /\ UNCHANGED << images, shapes, lines, selectVars, activeTool, isDrawing,
                    historyVars, viewVars, clipboard, upload, now, rnd, lastOp,
                    ghostVars, envVars >>

(***************************************************************************)
(* Viewport and history helpers                                            *)
(***************************************************************************)
\* a wrapper that makes every call
updateViewportUnthrottled(newViewport) ==
    viewport' = newViewport /\ inThrottle' = TRUE /\ throttleSet' = << now >>

\* throttle(func, 16): the call is made if no call was made in the window, else dropped
updateViewport(newViewport) ==
    IF ~inThrottle
    THEN viewport' = newViewport /\ inThrottle' = TRUE /\ throttleSet' = << now >>
    ELSE UNCHANGED viewVars

\* setTimeout(() => (inThrottle = false), limit): the callback runs once limit
\* milliseconds have passed, or later
ThrottleTimeout ==
    /\ inThrottle
    /\ now >= throttleSet[1] + THROTTLE_LIMIT
    /\ inThrottle' = FALSE
    /\ throttleSet' = throttleSet
    /\ UNCHANGED << storageVars, observed, selectVars, activeTool, isDrawing,
                    historyVars, viewport, clipboard, upload, now, rnd, lastOp,
                    ghostVars, envVars >>

\* stateRef.current: the effect stores the collections and the viewport of the last render
stateRef ==
    [images |-> images, shapes |-> shapes, lines |-> lines, viewport |-> viewport]

\* prevHistory.slice(0, ci + 1)
SliceTo(h, ci) == SubSeq(h, 1, Min2(Max2(ci + 1, 0), Len(h)))

\* addHistoryEntry of the render whose currentIndex was ci
addHistoryEntry(ci, newState) ==
    /\ history' = SliceTo(history, ci) \o <<newState>>
    /\ currentIndex' = currentIndex + 1

canUndo == currentIndex > 0

canRedo == currentIndex < Len(history) - 1

\* history[i] of the code (0-based); <<>> stands for undefined
HistoryAt(i) == IF i >= 0 /\ i < Len(history) THEN <<history[i + 1]>> ELSE <<>>

\* handleUndo without the canUndo test, the new cursor held at the first entry
handleUndoClamped ==
    /\ LET newIndex == Max2(currentIndex - 1, 0)
           state == HistoryAt(newIndex)
       IN  IF state = <<>>
           THEN /\ lastOp' = "undo-throw"
                /\ UNCHANGED << storageVars, viewVars, currentIndex >>
           ELSE /\ Mutate(<< Op("images", state[1].images),
                             Op("shapes", state[1].shapes),
                             Op("lines", state[1].lines) >>)
                /\ updateViewport(state[1].viewport)
                /\ currentIndex' = newIndex
                /\ lastOp' = "undo"
    /\ gesture' = Dirty(gesture)
    /\ UNCHANGED << observed, selectVars, activeTool, isDrawing, history, clipboard,
                    upload, now, rnd, drag, envVars >>

handleUndo ==
    /\ IF canUndo
       THEN LET newIndex == currentIndex - 1
                state == HistoryAt(newIndex)
            IN  IF state = <<>>
                THEN \* state.images throws a TypeError: nothing was written yet
                     /\ lastOp' = "undo-throw"
                     /\ UNCHANGED << storageVars, viewVars, currentIndex >>
                ELSE /\ Mutate(<< Op("images", state[1].images),
                                  Op("shapes", state[1].shapes),
                                  Op("lines", state[1].lines) >>)
                     /\ updateViewport(state[1].viewport)
                     /\ currentIndex' = newIndex
                     /\ lastOp' = "undo"
       ELSE /\ lastOp' = "undo-disabled"
            /\ UNCHANGED << storageVars, viewVars, currentIndex >>
    /\ gesture' = IF lastOp' = "undo" THEN Undone(gesture) ELSE Dirty(gesture)
    /\ UNCHANGED << observed, selectVars, activeTool, isDrawing, history, clipboard,
                    upload, now, rnd, drag, envVars >>

handleRedo ==
    /\ IF canRedo
       THEN LET newIndex == currentIndex + 1
                state == HistoryAt(newIndex)
            IN  IF state = <<>>
                THEN /\ lastOp' = "redo-throw"
                     /\ UNCHANGED << storageVars, viewVars, currentIndex >>
                ELSE /\ Mutate(<< Op("images", state[1].images),
                                  Op("shapes", state[1].shapes),
                                  Op("lines", state[1].lines) >>)
                     /\ updateViewport(state[1].viewport)
                     /\ currentIndex' = newIndex
                     /\ lastOp' = "redo"
       ELSE /\ lastOp' = "redo-disabled"
            /\ UNCHANGED << storageVars, viewVars, currentIndex >>
    /\ gesture' = Dirty(gesture)
    /\ UNCHANGED << observed, selectVars, activeTool, isDrawing, history, clipboard,
                    upload, now, rnd, drag, envVars >>

(***************************************************************************)
(* Clock, tool, selection by click                                         *)
(***************************************************************************)
\* time passes: Date.now() returns a later value
Tick ==
    /\ now' = now + 1
    /\ UNCHANGED << storageVars, observed, selectVars, activeTool, isDrawing,
                    historyVars, viewVars, clipboard, upload, rnd, lastOp, ghostVars,
                    envVars >>

\* Toolbar: setActiveTool
SetActiveTool(tool) ==
    /\ activeTool' = tool
    /\ lastOp' = "tool"
    /\ gesture' = Dirty(gesture)
    /\ UNCHANGED << storageVars, observed, selectVars, isDrawing, historyVars,
                    viewVars, clipboard, upload, now, rnd, drag, envVars >>

\* prev.includes(id) ? prev.filter(x => x !== id) : [...prev, id]
Toggle(prev, id) ==
    IF Includes(prev, id)
    THEN LET Keep(x) == x # id IN SeqFilter(Keep, prev)
    ELSE Append(prev, id)

\* onClick of an image, a shape or a freehand line (select tool: the pointer-down and
\* pointer-up of the click do nothing on an entity)
ClickEntity(id, shift) ==
    /\ activeTool = "select"
    /\ ~isSelecting /\ ~isDrawing
    /\ id \in AllIds
    /\ selectedIds' = IF shift THEN Toggle(selectedIds, id) ELSE <<id>>
    /\ lastOp' = "click"
    /\ UNCHANGED << storageVars, observed, isSelecting, selectionStart, selectionRect,
                    activeTool, isDrawing, historyVars, viewVars, clipboard, upload,
                    now, rnd, ghostVars, envVars >>

(***************************************************************************)
(* Delete, copy, paste                                                     *)
(***************************************************************************)
NotSelected(e) == ~Includes(selectedIds, e.id)

IsSelected(e) == Includes(selectedIds, e.id)

handleDelete ==
    /\ IF Len(selectedIds) > 0
       THEN /\ Mutate(<< Op("images", SeqFilter(NotSelected, images)),
                         Op("shapes", SeqFilter(NotSelected, shapes)),
                         Op("lines", SeqFilter(NotSelected, lines)) >>)
            /\ selectedIds' = <<>>
            /\ addHistoryEntry(currentIndex, stateRef)
            /\ lastOp' = "delete"
       ELSE /\ lastOp' = "delete-none"
            /\ UNCHANGED << storageVars, selectedIds, historyVars >>
    /\ gesture' = Dirty(gesture)
    /\ UNCHANGED << observed, isSelecting, selectionStart, selectionRect, activeTool,
                    isDrawing, viewVars, clipboard, upload, now, rnd, drag, envVars >>

\* Both keydown listeners of the window call the handleDelete of the same render: the
\* second call filters the same collections by the same selection, and its
\* addHistoryEntry slices at the same currentIndex and advances the cursor once more.
handleDeleteTwice ==
    /\ Len(selectedIds) > 0
    /\ LET ops == << Op("images", SeqFilter(NotSelected, images)),
                     Op("shapes", SeqFilter(NotSelected, shapes)),
                     Op("lines", SeqFilter(NotSelected, lines)) >>
       IN  Mutate(ops \o ops)
    /\ selectedIds' = <<>>
    /\ history' = SliceTo(SliceTo(history, currentIndex) \o <<stateRef>>, currentIndex)
                      \o <<stateRef>>
    /\ currentIndex' = currentIndex + 2
    /\ lastOp' = "delete-twice"
    /\ gesture' = Dirty(gesture)
    /\ UNCHANGED << observed, isSelecting, selectionStart, selectionRect, activeTool,
                    isDrawing, viewVars, clipboard, upload, now, rnd, drag, envVars >>

\* One Delete or Backspace keypress.  The listener of the delete effect runs first; the
\* listener of the keyboard shortcuts still runs with the same render when no render
\* is committed between the two, and has been removed by the effect cleanup otherwise.
DeleteKey == handleDelete \/ handleDeleteTwice

handleCopy ==
    /\ Len(selectedIds) > 0
    /\ clipboard' = << [images |-> SeqFilter(IsSelected, images),
                        shapes |-> SeqFilter(IsSelected, shapes),
                        lines |-> SeqFilter(IsSelected, lines)] >>
    /\ lastOp' = "copy"
    /\ UNCHANGED << storageVars, observed, selectVars, activeTool, isDrawing,
                    historyVars, viewVars, upload, now, rnd, ghostVars, envVars >>

\* (p - viewport offset) / scale, scale in percent
ToWorld(p) ==
    [x |-> ((p.x - viewport.x) * 100) \div viewport.scale,
     y |-> ((p.y - viewport.y) * 100) \div viewport.scale]

\* a || b || c || 0 over the x (k = 1) or y (k = 2) of the first clipboard entities:
\* undefined and 0 are both falsy
PasteRef(clip, k) ==
    LET a == IF clip.images # <<>>
             THEN (IF k = 1 THEN clip.images[1].x ELSE clip.images[1].y) ELSE 0
        b == IF clip.shapes # <<>>
             THEN (IF k = 1 THEN clip.shapes[1].x ELSE clip.shapes[1].y) ELSE 0
        c == IF clip.lines # <<>> /\ Len(clip.lines[1].points) >= k
             THEN clip.lines[1].points[k] ELSE 0
    IN  IF a # 0 THEN a ELSE IF b # 0 THEN b ELSE c

handlePaste(pointer) ==
    /\ IF clipboard = <<>>
       THEN /\ lastOp' = "paste-none"
            /\ UNCHANGED << storageVars, selectedIds, historyVars, rnd >>
       ELSE LET clip == clipboard[1]
                worldPos == ToWorld(pointer)
                offsetX == worldPos.x - PasteRef(clip, 1)
                offsetY == worldPos.y - PasteRef(clip, 2)
                ni == Len(clip.images)
                ns == Len(clip.shapes)
                nl == Len(clip.lines)
                newImages == [i \in 1..ni |->
                    [clip.images[i] EXCEPT !.id = MkId("image", now, rnd + i),
                                           !.x = @ + offsetX, !.y = @ + offsetY]]
                newShapes == [i \in 1..ns |->
                    [clip.shapes[i] EXCEPT !.id = MkId("shape", now, rnd + ni + i),
                                           !.x = @ + offsetX, !.y = @ + offsetY]]
                newLines == [i \in 1..nl |->
                    [clip.lines[i] EXCEPT !.id = MkId("line", now, rnd + ni + ns + i),
                                          !.points = TranslatePoints(@, offsetX, offsetY)]]
            IN  /\ Mutate(<< Op("images", images \o newImages),
                             Op("shapes", shapes \o newShapes),
                             Op("lines", lines \o newLines) >>)
                /\ selectedIds' = [i \in 1..ni |-> newImages[i].id]
                                    \o [i \in 1..ns |-> newShapes[i].id]
                                    \o [i \in 1..nl |-> newLines[i].id]
                /\ rnd' = rnd + ni + ns + nl
                /\ addHistoryEntry(currentIndex, stateRef)
                /\ lastOp' = "paste"
    /\ gesture' = Dirty(gesture)
    /\ UNCHANGED << observed, isSelecting, selectionStart, selectionRect, activeTool,
                    isDrawing, viewVars, clipboard, upload, now, drag, envVars >>

(***************************************************************************)
(* Drop of a URL or of an image file                                       *)
(***************************************************************************)
\* the image a drop at client position p creates
DroppedImage(id, url, p) ==
    [id |-> id, url |-> url,
     x |-> ToWorld(p).x - IMAGE_WIDTH \div 2,
     y |-> ToWorld(p).y - IMAGE_HEIGHT \div 2]

\* handleDrop with an http(s) URL (from text/html, text/uri-list or text/plain)
handleDropUrl(p, url) ==
    /\ LET newImage == DroppedImage(MkId("image", now, rnd + 1), url, p)
       IN  /\ Mutate(<< Op("images", Append(images, newImage)) >>)
           /\ addHistoryEntry(currentIndex,
                              [stateRef EXCEPT !.images = Append(images, newImage)])
    /\ rnd' = rnd + 1
    /\ lastOp' = "drop-url"
    /\ gesture' = Dirty(gesture)
    /\ UNCHANGED << observed, selectVars, activeTool, isDrawing, viewVars, clipboard,
                    upload, now, drag, envVars >>

\* handleDrop with an image file, up to `await uploadToS3(fileData)`: the placeholder
\* is written, and the continuation keeps the images and the addHistoryEntry of this render
handleDropFile(p) ==
    /\ upload = <<>>
    /\ LET loadingId == MkId("loading", now, 0)
           loadingImage == DroppedImage(loadingId, "", p)
       IN  /\ Mutate(<< Op("images", Append(images, loadingImage)) >>)
           /\ upload' = << [loadingId |-> loadingId, loadingImage |-> loadingImage,
                            images |-> images, currentIndex |-> currentIndex] >>
    /\ lastOp' = "drop-file"
    /\ gesture' = Dirty(gesture)
    /\ UNCHANGED << observed, selectVars, activeTool, isDrawing, historyVars, viewVars,
                    clipboard, now, rnd, drag, envVars >>

\* images.map(img => img.id === loadingId ? newImage : img)
ReplaceLoading(imgs, loadingId, newImage) ==
    [i \in 1..Len(imgs) |-> IF imgs[i].id = loadingId THEN newImage ELSE imgs[i]]

\* uploadToS3 resolved with imageUrl: the rest of the try block
UploadResolved(imageUrl) ==
    /\ upload # <<>>
    /\ LET c == upload[1]
           newImage == [c.loadingImage EXCEPT !.url = imageUrl]
           mapped == ReplaceLoading(c.images, c.loadingId, newImage)
       IN  /\ Mutate(<< Op("images", mapped) >>)
           /\ addHistoryEntry(c.currentIndex, [stateRef EXCEPT !.images = mapped])
    /\ upload' = <<>>
    /\ lastOp' = "upload-ok"
    /\ gesture' = Dirty(gesture)
    /\ UNCHANGED << observed, selectVars, activeTool, isDrawing, viewVars, clipboard,
                    now, rnd, drag, envVars >>

\* uploadToS3 rejected: the catch block removes the placeholder and rethrows to the alert
UploadRejected ==
    /\ upload # <<>>
    /\ LET c == upload[1]
           NotLoading(img) == img.id # c.loadingId
       IN  Mutate(<< Op("images", SeqFilter(NotLoading, c.images)) >>)
    /\ upload' = <<>>
    /\ lastOp' = "upload-failed"
    /\ gesture' = Dirty(gesture)
    /\ UNCHANGED << observed, selectVars, activeTool, isDrawing, historyVars, viewVars,
                    clipboard, now, rnd, drag, envVars >>

(***************************************************************************)
(* Wheel and zoom buttons                                                  *)
(***************************************************************************)
\* a zoom whose mousePointTo leaves out the offset of the viewport
ZoomAtFromOrigin(v, pointer, d) ==
    LET oldScale == v.scale
        newScale == Min2(MAX_SCALE, Max2(MIN_SCALE, (oldScale * (100 - d)) \div 100))
    IN  [scale |-> newScale,
         x |-> pointer.x - (pointer.x * newScale) \div oldScale,
         y |-> pointer.y - (pointer.y * newScale) \div oldScale]

\* a zoom whose scale is not clamped
ZoomAtUnclamped(v, pointer, d) ==
    LET oldScale == v.scale
        newScale == (oldScale * (100 - d)) \div 100
    IN  [scale |-> newScale,
         x |-> pointer.x - ((pointer.x - v.x) * newScale) \div oldScale,
         y |-> pointer.y - ((pointer.y - v.y) * newScale) \div oldScale]

\* the viewport handleWheel computes for a zoom at pointer.  d is deltaY in thirds of a
\* pixel, so that scaleBy = 1 - deltaY * ZOOM_SPEED * 0.5 is (100 - d) percent
ZoomAt(v, pointer, d) ==
    LET oldScale == v.scale
        newScale == Min2(MAX_SCALE, Max2(MIN_SCALE, (oldScale * (100 - d)) \div 100))
    IN  [scale |-> newScale,
         x |-> pointer.x - ((pointer.x - v.x) * newScale) \div oldScale,
         y |-> pointer.y - ((pointer.y - v.y) * newScale) \div oldScale]

\* handleWheel(e): with ctrlKey a zoom at the pointer, written only when the scale
\* changes; else a pan by deltaX and deltaY (both in thirds of a pixel), three times
\* faster with shiftKey
handleWheel(pointer, e) ==
    /\ IF e.ctrlKey
       THEN IF ZoomAt(viewport, pointer, e.deltaY).scale # viewport.scale
            THEN /\ updateViewport(ZoomAt(viewport, pointer, e.deltaY))
                 /\ lastOp' = "wheel-zoom"
            ELSE /\ lastOp' = "wheel-zoom-same"
                 /\ UNCHANGED viewVars
       ELSE LET speed == IF e.shiftKey THEN 3 ELSE 1
            IN  /\ updateViewport([viewport EXCEPT
                                       !.x = @ - (e.deltaX * speed) \div 3,
                                       !.y = @ - (e.deltaY * speed) \div 3])
                /\ lastOp' = "wheel-pan"
    /\ UNCHANGED << storageVars, observed, selectVars, activeTool, isDrawing,
                    historyVars, clipboard, upload, now, rnd, ghostVars, envVars >>

\* CanvasControls onZoomIn
onZoomIn ==
    /\ LET newScale == Min2((viewport.scale * (100 + ZOOM_SPEED)) \div 100, MAX_SCALE)
       IN  IF newScale # viewport.scale
           THEN updateViewport([viewport EXCEPT !.scale = newScale])
           ELSE UNCHANGED viewVars
    /\ lastOp' = "zoom-in"
    /\ UNCHANGED << storageVars, observed, selectVars, activeTool, isDrawing,
                    historyVars, clipboard, upload, now, rnd, ghostVars, envVars >>

\* CanvasControls onZoomOut
onZoomOut ==
    /\ LET newScale == Max2((viewport.scale * (100 - ZOOM_SPEED)) \div 100, MIN_SCALE)
       IN  IF newScale # viewport.scale
           THEN updateViewport([viewport EXCEPT !.scale = newScale])
           ELSE UNCHANGED viewVars
    /\ lastOp' = "zoom-out"
    /\ UNCHANGED << storageVars, observed, selectVars, activeTool, isDrawing,
                    historyVars, clipboard, upload, now, rnd, ghostVars, envVars >>

\* ms milliseconds pass
Elapse(ms) ==
    /\ now' = now + ms
    /\ UNCHANGED << storageVars, observed, selectVars, activeTool, isDrawing,
                    historyVars, viewVars, clipboard, upload, rnd, lastOp, ghostVars,
                    envVars >>

(***************************************************************************)
(* Drop of any content                                                     *)
(***************************************************************************)
\* s.startsWith(prefix), on sequences of characters or of tokens
StartsWith(s, prefix) == Len(s) >= Len(prefix) /\ SubSeq(s, 1, Len(prefix)) = prefix

\* file.type.startsWith('image/'): a type is the sequence of its tokens
IsImageFile(type) == StartsWith(type, << "image", "/" >>)

\* url.protocol.startsWith('http'): a protocol is the sequence of its characters
IsHttpProtocol(protocol) == StartsWith(protocol, << "h", "t", "t", "p" >>)

\* a path of handleDrop that returns or reaches a catch block before any write
DropIgnored(why) ==
    /\ lastOp' = why
    /\ gesture' = Dirty(gesture)
    /\ UNCHANGED << storageVars, observed, selectVars, activeTool, isDrawing,
                    historyVars, viewVars, clipboard, upload, now, rnd, drag, envVars >>

\* handleDrop of a DataTransfer dt: files holds the types of the dropped files; html is
\* <<>> or the link of the <img> of the text/html content; text is <<>> or the
\* text/uri-list or text/plain content, with the outcome of `new URL(text)`: parses
\* tells whether it returns, protocol is the protocol of the URL it returns
handleDrop(p, dt) ==
    IF dt.files # <<>>
    THEN IF IsImageFile(dt.files[1])
         THEN handleDropFile(p)
         ELSE DropIgnored("drop-not-image")
    ELSE IF dt.html # <<>>
    THEN handleDropUrl(p, dt.html[1])
    ELSE IF dt.text = <<>>
    THEN DropIgnored("drop-nothing")
    ELSE IF ~dt.text[1].parses
    THEN DropIgnored("drop-not-url")
    ELSE IF ~IsHttpProtocol(dt.text[1].protocol)
    THEN DropIgnored("drop-not-http")
    ELSE handleDropUrl(p, dt.text[1].url)

(***************************************************************************)
(* Pan buttons                                                             *)
(***************************************************************************)
\* CanvasControls onPan(dx, dy)
onPan(dx, dy) ==
    /\ updateViewport([viewport EXCEPT !.x = @ + dx, !.y = @ + dy])
    /\ lastOp' = "pan"
    /\ UNCHANGED << storageVars, observed, selectVars, activeTool, isDrawing,
                    historyVars, clipboard, upload, now, rnd, ghostVars, envVars >>

(***************************************************************************)
(* The remote participant: another client of the room running the same     *)
(* code.  Its writes reach the local replica whole, one collection each.   *)
(***************************************************************************)
\* the remote client ends a rectangle gesture begun at its own time t: shapes gets
\* [...shapes, newShape] with id `shape-${Date.now()}` of the remote clock
RemoteAddShape(t, x, y, w, h) ==
    /\ pending = <<>>
    /\ LET newShape == [id |-> MkId("shape", t, 0), type |-> "rectangle",
                        x |-> x, y |-> y, width |-> w, height |-> h,
                        points |-> NoPoints]
       IN  /\ shapes' = Append(shapes, newShape)
           /\ observed' = [observed EXCEPT !.shapes = Append(shapes, newShape)]
    /\ lastOp' = "remote-add"
    /\ gesture' = Dirty(gesture)
    /\ UNCHANGED << images, lines, pending, selectVars, activeTool, isDrawing,
                    historyVars, viewVars, clipboard, upload, now, rnd, drag, envVars >>

\* the remote client deletes the entity id (its handleDelete with id selected)
\* the remote participant draws the first point of a stroke at time t of their clock
RemoteAddLine(t, x, y) ==
    /\ pending = <<>>
    /\ LET newLine == [id |-> MkId("line", t, 0), points |-> << x, y >>]
       IN  /\ lines' = Append(lines, newLine)
           /\ observed' = [observed EXCEPT !.lines = Append(lines, newLine)]
    /\ lastOp' = "remote-add-line"
    /\ gesture' = Dirty(gesture)
    /\ UNCHANGED << images, shapes, pending, selectVars, activeTool, isDrawing,
                    historyVars, viewVars, clipboard, upload, now, rnd, drag, envVars >>

RemoteDelete(id) ==
    /\ pending = <<>>
    /\ id \in AllIds
    /\ LET Keep(e) == e.id # id
       IN  /\ images' = SeqFilter(Keep, images)
           /\ shapes' = SeqFilter(Keep, shapes)
           /\ lines' = SeqFilter(Keep, lines)
           /\ observed' = [images |-> SeqFilter(Keep, images),
                           shapes |-> SeqFilter(Keep, shapes),
                           lines |-> SeqFilter(Keep, lines)]
    /\ lastOp' = "remote-delete"
    /\ gesture' = Dirty(gesture)
    /\ UNCHANGED << pending, selectVars, activeTool, isDrawing, historyVars, viewVars,
                    clipboard, upload, now, rnd, drag, envVars >>

(***************************************************************************)
(* Pointer handlers of the stage                                           *)
(***************************************************************************)
\* the marquee tests of handleMouseMove
ImageHit(rect, img) ==
    /\ rect.x < img.x + IMAGE_WIDTH
    /\ rect.x + rect.width > img.x
    /\ rect.y < img.y + IMAGE_HEIGHT
    /\ rect.y + rect.height > img.y

PointsHit(rect, pts) ==
    \E i \in 1..(Len(pts) \div 2) :
        /\ pts[2 * i - 1] >= rect.x
        /\ pts[2 * i - 1] <= rect.x + rect.width
        /\ pts[2 * i] >= rect.y
        /\ pts[2 * i] <= rect.y + rect.height

ShapeHit(rect, shape) ==
    IF shape.type = "rectangle"
    THEN /\ rect.x < shape.x + shape.width
         /\ rect.x + rect.width > shape.x
         /\ rect.y < shape.y + shape.height
         /\ rect.y + rect.height > shape.y
    ELSE IF shape.type = "circle"
    THEN LET radius == Abs(shape.width \div 2)
         IN  /\ rect.x < shape.x + radius
             /\ rect.x + rect.width > shape.x - radius
             /\ rect.y < shape.y + radius
             /\ rect.y + rect.height > shape.y - radius
    ELSE PointsHit(rect, shape.points)

MarqueeIds(rect) ==
    LET HitI(img) == ImageHit(rect, img)
        HitS(shape) == ShapeHit(rect, shape)
        HitL(line) == PointsHit(rect, line.points)
        IdOf(e) == e.id
    IN  SeqMap(IdOf, SeqFilter(HitI, images))
            \o SeqMap(IdOf, SeqFilter(HitS, shapes))
            \o SeqMap(IdOf, SeqFilter(HitL, lines))

RECURSIVE Dedupe(_, _)
\* Array.from(new Set(s)): the first occurrence of each element, in order
Dedupe(s, seen) ==
    IF s = <<>> THEN <<>>
    ELSE IF Head(s) \in seen THEN Dedupe(Tail(s), seen)
    ELSE <<Head(s)>> \o Dedupe(Tail(s), seen \cup {Head(s)})

\* the shape pointer-down creates
NewShape(tool, pos) ==
    [id |-> MkId("shape", now, 0), type |-> tool, x |-> pos.x, y |-> pos.y,
     width |-> 0, height |-> 0,
     points |-> IF tool \in {"line", "arrow"}
                THEN << pos.x, pos.y, pos.x, pos.y >> ELSE NoPoints]

\* target: "stage" for the empty canvas, "entity" for a Line, Rect, Circle or Image node
handleMouseDown(pointer, target, shift) ==
    /\ LET stagePos == ToWorld(pointer)
       IN  IF activeTool = "select"
           THEN /\ IF target = "stage"
                   THEN /\ selectedIds' = IF shift THEN selectedIds ELSE <<>>
                        /\ isSelecting' = TRUE
                        /\ selectionStart' = <<stagePos>>
                        /\ marqueeBase' = selectedIds'
                        /\ lastOp' = "mousedown-marquee"
                   ELSE /\ lastOp' = "mousedown-entity"
                        /\ UNCHANGED << selectedIds, isSelecting, selectionStart,
                                        marqueeBase >>
                /\ gesture' = Dirty(gesture)
                /\ UNCHANGED << storageVars, isDrawing >>
           ELSE /\ isDrawing' = TRUE
                /\ IF activeTool = "pen"
                   THEN Mutate(<< Op("lines", Append(lines,
                               [id |-> MkId("line", now, 0),
                                points |-> << stagePos.x, stagePos.y >>])) >>)
                   ELSE IF isShapeTool(activeTool)
                   THEN Mutate(<< Op("shapes",
                               Append(shapes, NewShape(activeTool, stagePos))) >>)
                   ELSE UNCHANGED storageVars
                /\ gesture' = IF isDrawing THEN Dirty(gesture)
                              ELSE [phase |-> "drawing", clean |-> TRUE,
                                    id |-> MkId(IF activeTool = "pen" THEN "line"
                                                ELSE "shape", now, 0),
                                    tool |-> activeTool, down |-> stagePos,
                                    last |-> stagePos, shapes |-> shapes,
                                    history |-> history, currentIndex |-> currentIndex]
                /\ lastOp' = "mousedown-draw"
                /\ UNCHANGED << selectedIds, isSelecting, selectionStart, marqueeBase >>
    /\ UNCHANGED << observed, selectionRect, activeTool, historyVars, viewVars,
                    clipboard, upload, now, rnd, drag, hostVars >>

\* the shape of the gesture, recomputed from its anchor to the pointer
UpdatedShape(lastShape, stagePos) ==
    LET dx == stagePos.x - lastShape.x
        dy == stagePos.y - lastShape.y
    IN  CASE lastShape.type = "circle" ->
               \* radius * 2, rounded down
               [lastShape EXCEPT !.width = ISqrt(4 * (dx * dx + dy * dy)),
                                 !.height = ISqrt(4 * (dx * dx + dy * dy))]
          [] lastShape.type = "line" ->
               [lastShape EXCEPT !.width = dx, !.height = dy,
                   !.points = << lastShape.x, lastShape.y, stagePos.x, stagePos.y >>]
          [] lastShape.type = "arrow" ->
               [lastShape EXCEPT !.width = dx, !.height = dy,
                   !.points = calculateArrowPoints(lastShape.x, lastShape.y,
                                                   stagePos.x, stagePos.y)]
          [] lastShape.type = "star" ->
               LET size == Max2(Abs(dx), Abs(dy))
               IN  [lastShape EXCEPT !.width = size * 2, !.height = size * 2,
                       !.points = calculateStarPoints(lastShape.x, lastShape.y, size)]
          [] lastShape.type = "triangle" ->
               [lastShape EXCEPT !.width = dx, !.height = dy,
                   !.points = calculateTrianglePoints(lastShape.x, lastShape.y, dx, dy)]
          [] OTHER ->
               [lastShape EXCEPT !.width = dx, !.height = dy]

handleMouseMove(pointer, shift) ==
    /\ LET stagePos == ToWorld(pointer)
       IN  IF isSelecting /\ selectionStart # <<>>
           THEN LET start == selectionStart[1]
                    rect == [x |-> Min2(start.x, stagePos.x),
                             y |-> Min2(start.y, stagePos.y),
                             width |-> Abs(stagePos.x - start.x),
                             height |-> Abs(stagePos.y - start.y)]
                    newSelectedIds == MarqueeIds(rect)
                IN  /\ selectionRect' = <<rect>>
                    /\ selectedIds' = IF shift
                                      THEN Dedupe(selectedIds \o newSelectedIds, {})
                                      ELSE newSelectedIds
                    /\ lastOp' = "mousemove-marquee"
                    /\ UNCHANGED << storageVars, gesture >>
           ELSE IF isDrawing
           THEN /\ IF activeTool = "pen"
                   THEN IF lines = <<>>
                        THEN \* lastLine.points throws a TypeError
                             /\ lastOp' = "mousemove-throw"
                             /\ UNCHANGED storageVars
                        ELSE LET lastLine == lines[Len(lines)]
                                 updatedLine == [lastLine EXCEPT !.points =
                                     @ \o << stagePos.x, stagePos.y >>]
                             IN  /\ Mutate(<< Op("lines",
                                        Append(SubSeq(lines, 1, Len(lines) - 1),
                                               updatedLine)) >>)
                                 /\ lastOp' = "mousemove-pen"
                   ELSE IF isShapeTool(activeTool) /\ shapes # <<>>
                   THEN /\ Mutate(<< Op("shapes",
                               Append(SubSeq(shapes, 1, Len(shapes) - 1),
                                      UpdatedShape(shapes[Len(shapes)], stagePos))) >>)
                        /\ lastOp' = "mousemove-shape"
                   ELSE /\ lastOp' = "mousemove-idle"
                        /\ UNCHANGED storageVars
                /\ gesture' = IF gesture.phase = "drawing"
                              THEN [gesture EXCEPT !.last = stagePos] ELSE gesture
                /\ UNCHANGED << selectedIds, selectionRect >>
           ELSE /\ lastOp' = "mousemove-idle"
                /\ UNCHANGED << storageVars, selectedIds, selectionRect, gesture >>
    /\ UNCHANGED << observed, isSelecting, selectionStart, activeTool, isDrawing,
                    historyVars, viewVars, clipboard, upload, now, rnd, drag, envVars >>

\* the test of handleMouseUp with a threshold one unit lower
DegenerateBelow(shape) ==
    Abs(shape.width) < MIN_DRAG - 1 /\ Abs(shape.height) < MIN_DRAG - 1

\* lastShape && Math.abs(lastShape.width) < 5 && Math.abs(lastShape.height) < 5
Degenerate(shape) == Abs(shape.width) < MIN_DRAG /\ Abs(shape.height) < MIN_DRAG

handleMouseUp ==
    /\ IF isSelecting
       THEN isSelecting' = FALSE /\ selectionRect' = <<>> /\ selectionStart' = <<>>
       ELSE UNCHANGED << isSelecting, selectionRect, selectionStart >>
    /\ IF isDrawing
       THEN /\ isDrawing' = FALSE
            /\ IF activeTool # "pen" /\ shapes # <<>> /\ Degenerate(shapes[Len(shapes)])
               THEN /\ Mutate(<< Op("shapes", SubSeq(shapes, 1, Len(shapes) - 1)) >>)
                    /\ lastOp' = "mouseup-discard"
               ELSE /\ lastOp' = "mouseup-keep"
                    /\ UNCHANGED storageVars
            /\ addHistoryEntry(currentIndex, stateRef)
            /\ gesture' = IF gesture.phase = "drawing"
                          THEN [gesture EXCEPT !.phase = "ended"] ELSE NoGesture
       ELSE /\ lastOp' = IF isSelecting THEN "mouseup-marquee" ELSE "mouseup-idle"
            /\ gesture' = Dirty(gesture)
            /\ UNCHANGED << storageVars, isDrawing, historyVars >>
    /\ UNCHANGED << observed, selectedIds, activeTool, viewVars, clipboard, upload,
                    now, rnd, drag, envVars >>

(***************************************************************************)
(* Group drag                                                              *)
(***************************************************************************)
RECURSIVE Flatten(_)
Flatten(ss) == IF ss = <<>> THEN <<>> ELSE Head(ss) \o Flatten(Tail(ss))

\* every second element of pts, from the first (k = 1: the xs) or the second (k = 2: the ys)
Every2(pts, k) == [i \in 1..(Len(pts) \div 2) |-> pts[2 * (i - 1) + k]]

SeqMin(s) == CHOOSE m \in Range(s) : \A e \in Range(s) : m <= e

SeqMax(s) == CHOOSE m \in Range(s) : \A e \in Range(s) : m >= e

\* the xs (k = 1) or ys (k = 2) groupBBox collects; no image has loaded dimensions
BBoxCoords(k) ==
    LET OfImage(img) ==
            IF ~IsSelected(img) THEN <<>>
            ELSE IF k = 1 THEN << img.x, img.x + IMAGE_WIDTH >>
            ELSE << img.y, img.y + IMAGE_HEIGHT >>
        OfShape(shape) ==
            IF ~IsSelected(shape) THEN <<>>
            ELSE IF shape.type = "rectangle"
            THEN (IF k = 1 THEN << shape.x, shape.x + shape.width >>
                  ELSE << shape.y, shape.y + shape.height >>)
            ELSE IF shape.type = "circle"
            THEN (IF k = 1 THEN << shape.x - Abs(shape.width), shape.x + Abs(shape.width) >>
                  ELSE << shape.y - Abs(shape.width), shape.y + Abs(shape.width) >>)
            ELSE <<>>
        OfLine(line) ==
            IF ~IsSelected(line) THEN <<>> ELSE Every2(line.points, k)
    IN  Flatten(SeqMap(OfImage, images)) \o Flatten(SeqMap(OfShape, shapes))
            \o Flatten(SeqMap(OfLine, lines))

\* <<>> for null
groupBBox ==
    IF Len(selectedIds) < 2 THEN <<>>
    ELSE LET xs == BBoxCoords(1)
             ys == BBoxCoords(2)
         IN  IF xs = <<>> \/ ys = <<>> THEN <<>>
             ELSE << [x |-> SeqMin(xs) - BBOX_PADDING,
                      y |-> SeqMin(ys) - BBOX_PADDING,
                      width |-> SeqMax(xs) + BBOX_PADDING - (SeqMin(xs) - BBOX_PADDING),
                      height |-> SeqMax(ys) + BBOX_PADDING - (SeqMin(ys) - BBOX_PADDING)] >>

GroupMoveImage(img, deltaX, deltaY) ==
    IF IsSelected(img) THEN [img EXCEPT !.x = @ + deltaX, !.y = @ + deltaY] ELSE img

\* the shape branch of handleGroupDragMove with x and y moved for every type
GroupMoveShapeByXY(shape, deltaX, deltaY) ==
    IF ~IsSelected(shape) THEN shape
    ELSE [shape EXCEPT !.x = @ + deltaX, !.y = @ + deltaY]

GroupMoveShape(shape, deltaX, deltaY) ==
    IF ~IsSelected(shape) THEN shape
    ELSE IF shape.type \in PointShapeTypes
    THEN [shape EXCEPT !.points = TranslatePoints(@, deltaX, deltaY)]
    ELSE [shape EXCEPT !.x = @ + deltaX, !.y = @ + deltaY]

GroupMoveLine(line, deltaX, deltaY) ==
    IF IsSelected(line) THEN [line EXCEPT !.points = TranslatePoints(@, deltaX, deltaY)]
    ELSE line

\* onDragMove of the group rectangle, dragged to groupBBox + (deltaX, deltaY); the
\* rectangle is rendered when selectedIds.length > 1 and groupBBox is not null
handleGroupDragMove(deltaX, deltaY) ==
    /\ activeTool = "select" /\ ~isSelecting /\ ~isDrawing
    /\ Len(selectedIds) > 1
    /\ groupBBox # <<>>
    /\ LET newImages == [i \in 1..Len(images) |-> GroupMoveImage(images[i], deltaX, deltaY)]
           newShapes == [i \in 1..Len(shapes) |-> GroupMoveShape(shapes[i], deltaX, deltaY)]
           newLines == [i \in 1..Len(lines) |-> GroupMoveLine(lines[i], deltaX, deltaY)]
       IN  /\ Mutate(<< Op("images", newImages), Op("shapes", newShapes),
                        Op("lines", newLines) >>)
           /\ drag' = [phase |-> "dragging",
                       steps |-> IF drag.phase = "dragging" THEN drag.steps + 1 ELSE 1,
                       dx |-> deltaX, dy |-> deltaY,
                       pre |-> Model,
                       post |-> [images |-> newImages, shapes |-> newShapes,
                                 lines |-> newLines]]
    /\ lastOp' = "group-drag-move"
    /\ gesture' = Dirty(gesture)
    /\ UNCHANGED << observed, selectVars, activeTool, isDrawing, historyVars, viewVars,
                    clipboard, upload, now, rnd, envVars >>

\* onDragEnd of the group rectangle without its addHistoryEntry
handleGroupDragEndSilent ==
    /\ drag.phase = "dragging"
    /\ drag' = NoDrag
    /\ lastOp' = "group-drag-end"
    /\ gesture' = Dirty(gesture)
    /\ UNCHANGED << storageVars, observed, selectVars, activeTool, isDrawing,
                    historyVars, viewVars, clipboard, upload, now, rnd, envVars >>

\* onDragEnd of the group rectangle
handleGroupDragEnd ==
    /\ drag.phase = "dragging"
    /\ addHistoryEntry(currentIndex, stateRef)
    /\ drag' = NoDrag
    /\ lastOp' = "group-drag-end"
    /\ gesture' = Dirty(gesture)
    /\ UNCHANGED << storageVars, observed, selectVars, activeTool, isDrawing, viewVars,
                    clipboard, upload, now, rnd, envVars >>

(***************************************************************************)
(* Initialization of the storage                                           *)
(***************************************************************************)
\* imageUrls: three URLs
imageUrls == << "https://bucket/house.png", "https://bucket/man.png",
                "https://bucket/villa.png" >>

\* imageUrls.map((url, index) => ({id: `image-${index}`, url, x: ..., y: ...}))
initialImages ==
    [i \in 1..Len(imageUrls) |->
        [id |-> MkId("image", i - 1, 0), url |-> imageUrls[i],
         x |-> ((i - 1) % GRID_COLUMNS) * (IMAGE_WIDTH + IMAGE_GAP) + IMAGE_GAP,
         y |-> ((i - 1) \div GRID_COLUMNS) * (IMAGE_HEIGHT + IMAGE_GAP) + IMAGE_GAP]]

\* a test that takes an empty images array for a missing one
isNewRoomWhenNoImages == images = <<>>

\* !storage.images && !storage.shapes && !storage.lines: a key of the root that holds
\* an array, empty or not, is truthy
isNewRoom == rootKeys \cap {"images", "shapes", "lines"} = {}

\* initializeStorage, run by its effect once the storage is loaded.  In a new room
\* loadRoomBackup is awaited: it returns the backup, or null when there is no object
\* (NoSuchKey), or throws any other error of getObject (getError), which the try/catch
\* of the initializer logs.  In a room that has state, a missing key is set to [].
initializeStorage(getError) ==
    /\ IF isNewRoom
       THEN IF getError
            THEN /\ initLog' = initLog \o << "restore", "failed" >>
                 /\ UNCHANGED << storageVars, rootKeys >>
            ELSE IF backupObject # <<>>
            THEN /\ Mutate(<< Op("images", backupObject[1].images),
                              Op("shapes", backupObject[1].shapes),
                              Op("lines", backupObject[1].lines) >>)
                 /\ rootKeys' = {"images", "shapes", "lines"}
                 /\ initLog' = initLog \o << "restore", "write-backup" >>
            ELSE /\ Mutate(<< Op("images", initialImages), Op("shapes", <<>>),
                              Op("lines", <<>>) >>)
                 /\ rootKeys' = {"images", "shapes", "lines"}
                 /\ initLog' = initLog \o << "restore", "write-default" >>
       ELSE /\ Mutate(SelectSeq(<< Op("images", <<>>), Op("shapes", <<>>),
                                   Op("lines", <<>>) >>,
                                LAMBDA op : op.coll \notin rootKeys))
            /\ rootKeys' = {"images", "shapes", "lines"}
            /\ initLog' = Append(initLog, "existing")
    /\ lastOp' = "initialize"
    /\ UNCHANGED << observed, selectVars, activeTool, isDrawing, historyVars, viewVars,
                    clipboard, upload, now, rnd, ghostVars, backupVars, presenceVars,
                    marqueeBase >>

(***************************************************************************)
(* Presence of the remote participant                                      *)
(***************************************************************************)
\* the filter of othersWithTimestamp, for the presence in `user` at time t:
\* user.presence.cursor is set and Date.now() - lastUpdate < CURSOR_TIMEOUT (every
\* presence that sets a cursor sets lastUpdate too, so `|| Date.now()` plays no part)
CursorFresh(user, t) ==
    /\ user # <<>>
    /\ user[1].cursor # <<>>
    /\ t - user[1].lastUpdate < CURSOR_TIMEOUT

\* the remote participant moves the pointer, or hides the tab (cursor <<>>):
\* updateMyPresence({cursor, lastUpdate: Date.now()}).  useOthers() returns a new
\* array, the component renders and useMemo(..., [others]) runs the filter again.
RemotePresence(cursor) ==
    /\ others' = << [cursor |-> cursor, lastUpdate |-> now] >>
    /\ othersWithTimestamp' = CursorFresh(others', now)
    /\ lastOp' = "presence"
    /\ UNCHANGED << storageVars, observed, selectVars, activeTool, isDrawing,
                    historyVars, viewVars, clipboard, upload, now, rnd, ghostVars,
                    rootKeys, initLog, backupVars, marqueeBase >>

\* the remote participant leaves the room
RemoteLeaves ==
    /\ others # <<>>
    /\ others' = <<>>
    /\ othersWithTimestamp' = CursorFresh(others', now)
    /\ lastOp' = "presence-left"
    /\ UNCHANGED << storageVars, observed, selectVars, activeTool, isDrawing,
                    historyVars, viewVars, clipboard, upload, now, rnd, ghostVars,
                    rootKeys, initLog, backupVars, marqueeBase >>

(***************************************************************************)
(* Room backup                                                             *)
(***************************************************************************)
\* useEffect(checkAndCreateBackup, [roomId, images, shapes, lines]): runs after the first
\* render and after every render whose collections differ from those of its last run.
\* checkRoomBackupExists answers whether the object exists, or throws (headError); when
\* it answers no, a timer is set that holds the collections of this render.  No run
\* clears the timer of an earlier run.
checkAndCreateBackup(headError) ==
    /\ backupDeps # << Model >>
    /\ backupDeps' = << Model >>
    /\ backupTimers' = IF ~headError /\ backupObject = <<>>
                       THEN Append(backupTimers, Model)
                       ELSE backupTimers
    /\ lastOp' = "backup-check"
    /\ UNCHANGED << storageVars, observed, selectVars, activeTool, isDrawing,
                    historyVars, viewVars, clipboard, upload, now, rnd, ghostVars,
                    rootKeys, initLog, backupObject, backupCalls, presenceVars,
                    marqueeBase >>

\* the callback of setTimeout(..., 1728000000): createRoomBackup(roomId, backupState),
\* whose putObject stores the object or fails (putError)
BackupTimer(putError) ==
    /\ backupTimers # <<>>
    /\ backupTimers' = Tail(backupTimers)
    /\ backupCalls' = backupCalls + 1
    /\ backupObject' = IF putError THEN backupObject ELSE << Head(backupTimers) >>
    /\ lastOp' = "backup-timer"
    /\ UNCHANGED << storageVars, observed, selectVars, activeTool, isDrawing,
                    historyVars, viewVars, clipboard, upload, now, rnd, ghostVars,
                    rootKeys, initLog, backupDeps, presenceVars,
                    marqueeBase >>

(***************************************************************************)
(* Render props: which nodes can be dragged                                *)
(***************************************************************************)
\* DraggableImage: draggable={activeTool === "select"}
ImageDraggable == activeTool = "select"

\* shapes (commonProps) and freehand lines: draggable = selectedIds.length <= 1
ShapeDraggable == Len(selectedIds) <= 1

LineDraggable == Len(selectedIds) <= 1

\* {selectedIds.length > 1 && groupBBox && (<Rect draggable ... />)}
GroupHandleShown == Len(selectedIds) > 1 /\ groupBBox # <<>>

(***************************************************************************)
(* Drag of one entity                                                      *)
(***************************************************************************)
\* handleImageDragEnd, called by onDragEnd of the image node with its new position;
\* the image node has no onDragMove
handleImageDragEnd(id, newX, newY) ==
    /\ ImageDraggable /\ ~isSelecting /\ ~isDrawing
    /\ drag.phase = "none"
    /\ \E i \in 1..Len(images) : images[i].id = id
    /\ LET newImages == [i \in 1..Len(images) |->
                            IF images[i].id = id
                            THEN [images[i] EXCEPT !.x = newX, !.y = newY]
                            ELSE images[i]]
       IN  Mutate(<< Op("images", newImages) >>)
    /\ lastOp' = "image-drag-end"
    /\ gesture' = Dirty(gesture)
    /\ UNCHANGED << observed, selectVars, activeTool, isDrawing, historyVars, viewVars,
                    clipboard, upload, now, rnd, drag, envVars >>

\* the state of drag while one shape or one line is dragged
SingleDrag(kind, id) ==
    [phase |-> "single", kind |-> kind, id |-> id,
     steps |-> IF drag.phase = "single" THEN drag.steps + 1 ELSE 1]

\* commonProps.onDragMove of the shape node, at its new position
handleShapeDragMove(id, x, y) ==
    /\ ShapeDraggable /\ activeTool = "select" /\ ~isSelecting /\ ~isDrawing
    /\ drag.phase = "none" \/ (drag.phase = "single" /\ drag.id = id)
    /\ \E i \in 1..Len(shapes) : shapes[i].id = id
    /\ LET newShapes == [i \in 1..Len(shapes) |->
                            IF shapes[i].id = id
                            THEN [shapes[i] EXCEPT !.x = x, !.y = y]
                            ELSE shapes[i]]
       IN  Mutate(<< Op("shapes", newShapes) >>)
    /\ drag' = SingleDrag("shape", id)
    /\ lastOp' = "shape-drag-move"
    /\ gesture' = Dirty(gesture)
    /\ UNCHANGED << observed, selectVars, activeTool, isDrawing, historyVars, viewVars,
                    clipboard, upload, now, rnd, envVars >>

\* onDragMove of the line node, moved by (dx, dy) since the last move
handleLineDragMove(id, dx, dy) ==
    /\ LineDraggable /\ activeTool = "select" /\ ~isSelecting /\ ~isDrawing
    /\ drag.phase = "none" \/ (drag.phase = "single" /\ drag.id = id)
    /\ \E i \in 1..Len(lines) : lines[i].id = id
    /\ LET newLines == [i \in 1..Len(lines) |->
                           IF lines[i].id = id
                           THEN [lines[i] EXCEPT !.points = TranslatePoints(@, dx, dy)]
                           ELSE lines[i]]
       IN  Mutate(<< Op("lines", newLines) >>)
    /\ drag' = SingleDrag("line", id)
    /\ lastOp' = "line-drag-move"
    /\ gesture' = Dirty(gesture)
    /\ UNCHANGED << observed, selectVars, activeTool, isDrawing, historyVars, viewVars,
                    clipboard, upload, now, rnd, envVars >>

\* commonProps.onDragEnd of a shape node and onDragEnd of a line node
handleEntityDragEnd ==
    /\ drag.phase = "single"
    /\ addHistoryEntry(currentIndex, stateRef)
    /\ drag' = NoDrag
    /\ lastOp' = "entity-drag-end"
    /\ gesture' = Dirty(gesture)
    /\ UNCHANGED << storageVars, observed, selectVars, activeTool, isDrawing, viewVars,
                    clipboard, upload, now, rnd, envVars >>

(***************************************************************************)
(* Initial states                                                          *)
(***************************************************************************)
\* the surroundings of the canvas when they play no part: the storage root as
\* initialStorage fills it, no backup object, the backup effect not yet run, nobody else
\* present
InitEnv ==
    /\ rootKeys = {"images", "shapes", "lines"}
    /\ initLog = <<>>
    /\ backupObject = <<>>
    /\ backupDeps = <<>>
    /\ backupTimers = <<>>
    /\ backupCalls = 0
    /\ others = <<>>
    /\ othersWithTimestamp = FALSE
    /\ marqueeBase = <<>>

\* what is local to the client, right after the component is constructed
InitCanvas ==
    /\ pending = <<>>
    /\ selectedIds = <<>>
    /\ isSelecting = FALSE
    /\ selectionStart = <<>>
    /\ selectionRect = <<>>
    /\ activeTool = "select"
    /\ isDrawing = FALSE
    /\ history = <<>>
    /\ currentIndex = -1
    /\ viewport = [x |-> 0, y |-> 0, scale |-> INITIAL_SCALE]
    /\ inThrottle = FALSE
    /\ throttleSet = <<>>
    /\ clipboard = <<>>
    /\ upload = <<>>
    /\ now = 0
    /\ rnd = 0
    /\ lastOp = "init"
    /\ gesture = NoGesture
    /\ drag = NoDrag

InitLocal == InitCanvas /\ InitEnv

\* the room as RoomProvider's initialStorage creates it
Init ==
    /\ images = <<>>
    /\ shapes = <<>>
    /\ lines = <<>>
    /\ observed = [images |-> <<>>, shapes |-> <<>>, lines |-> <<>>]
    /\ InitLocal

(***************************************************************************)
(* Inputs and bounds                                                       *)
(***************************************************************************)
Pt(x, y) == [x |-> x, y |-> y]

\* pointer positions of a move: from (0,0), (2,0) and (3,4) are less than 5 away on
\* both axes and (6,8) is not
Pointers == {Pt(2, 0), Pt(3, 4), Pt(6, 8)}

Urls == {"http://a/1.png"}

Deltas == {<<3, 0>>, <<0, -4>>}

\* the remote participant has every storage operation of this client
Quiet == Len(pending) <= MaxPending

Fits(n) == TotalEntities + n <= MaxEntities

\* a commit from the render whose currentIndex was ci leaves at most MaxHist entries
\* and a cursor of at most MaxHist
HistRoom(ci) == Len(SliceTo(history, ci)) < MaxHist /\ currentIndex < MaxHist

ClipSize ==
    IF clipboard = <<>> THEN 0
    ELSE Len(clipboard[1].images) + Len(clipboard[1].shapes) + Len(clipboard[1].lines)

StrokeRoom ==
    IF lines = <<>> THEN TRUE ELSE Len(lines[Len(lines)].points) < 2 * MaxStroke

DragRoom == drag.phase = "dragging" => drag.steps < MaxDragSteps

PanRoom(dx, dy) ==
    /\ Abs(viewport.x + dx) <= MaxPan * PAN_AMOUNT
    /\ Abs(viewport.y + dy) <= MaxPan * PAN_AMOUNT

\* the pointer handlers, within the bounds
MouseDown(p, target, shift) ==
    /\ Quiet
    /\ activeTool \notin {"select", "hand"} => Fits(1)
    /\ handleMouseDown(p, target, shift)

MouseMove(p, shift) ==
    /\ Quiet
    /\ (isDrawing /\ activeTool = "pen") => StrokeRoom
    /\ handleMouseMove(p, shift)

MouseUp ==
    /\ Quiet
    /\ isDrawing => HistRoom(currentIndex)
    /\ handleMouseUp

(***************************************************************************)
(* Spec: the history.  Commits by URL drop and by file drop; undo and      *)
(* redo; a remote participant who draws and deletes.                       *)
(***************************************************************************)
Next ==
    \/ Deliver
    \/ /\ Quiet /\ Fits(1) /\ rnd < MaxRnd /\ HistRoom(currentIndex)
       /\ \E url \in Urls : handleDropUrl(Pt(0, 0), url)
    \/ Quiet /\ Fits(1) /\ handleDropFile(Pt(6, 8))
    \/ /\ Quiet /\ upload # <<>> /\ HistRoom(upload[1].currentIndex)
       /\ \E url \in Urls : UploadResolved(url)
    \/ Quiet /\ UploadRejected
    \/ Quiet /\ handleUndo
    \/ Quiet /\ handleRedo
    \/ Fits(1) /\ RemoteAddShape(0, 0, 0, 6, 8)
    \/ \E id \in AllIds : RemoteDelete(id)

Spec == Init /\ [][Next]_vars

(***************************************************************************)
(* SpecEdit: selection by click, delete, copy and paste, and a rectangle   *)
(* gesture without a move, on entities dropped as URLs.                    *)
(***************************************************************************)
NextEdit ==
    \/ Deliver
    \/ Quiet /\ \E tool \in {"select", "rectangle"} : SetActiveTool(tool)
    \/ activeTool = "rectangle" /\ MouseDown(Pt(0, 0), "stage", FALSE)
    \/ MouseUp
    \/ Quiet /\ \E id \in AllIds : ClickEntity(id, FALSE)
    \/ Quiet /\ HistRoom(currentIndex) /\ handleDelete
    \/ Quiet /\ handleCopy
    \/ /\ Quiet /\ Fits(ClipSize) /\ rnd + ClipSize <= MaxRnd /\ HistRoom(currentIndex)
       /\ handlePaste(Pt(3, 4))
    \/ /\ Quiet /\ Fits(1) /\ rnd < MaxRnd /\ HistRoom(currentIndex)
       /\ \E url \in Urls : handleDropUrl(Pt(0, 0), url)
    \/ Quiet /\ handleUndo
    \/ Quiet /\ handleRedo

SpecEdit == Init /\ [][NextEdit]_vars

(***************************************************************************)
(* SpecDraw: one gesture with any tool, beside a remote participant who    *)
(* draws rectangles and whose clock is its own.                            *)
(***************************************************************************)
NextDraw ==
    \/ now < MaxTime /\ Tick
    \/ Deliver
    \/ Quiet /\ ~isDrawing /\ \E tool \in Tools : SetActiveTool(tool)
    \/ Len(history) < MaxGestures /\ MouseDown(Pt(0, 0), "stage", FALSE)
    \/ \E p \in Pointers : MouseMove(p, FALSE)
    \/ MouseUp
    \/ Quiet /\ Fits(1) /\ \E t \in 0..MaxTime : RemoteAddShape(t, 0, 0, 6, 8)

SpecDraw == Init /\ [][NextDraw]_vars

(***************************************************************************)
(* SpecGroup: selection by click and group drag in a room that already     *)
(* holds entities of every kind.                                           *)
(***************************************************************************)
\* a shape as a gesture with `tool` from (x, y) to (x + 6, y + 8) at time t leaves it
Drawn(tool, t, x, y) ==
    UpdatedShape([id |-> MkId("shape", t, 0), type |-> tool, x |-> x, y |-> y,
                  width |-> 0, height |-> 0, points |-> NoPoints],
                 Pt(x + 6, y + 8))

RoomA ==
    [images |-> << [id |-> MkId("image", 1, 1), url |-> "http://a/1.png",
                    x |-> -100, y |-> -100] >>,
     shapes |-> << Drawn("rectangle", 2, 0, 0), Drawn("star", 3, 10, 10) >>,
     lines |-> << [id |-> MkId("line", 4, 0), points |-> << 0, 0, 3, 4 >>] >>]

RoomB ==
    [images |-> <<>>,
     shapes |-> << Drawn("circle", 1, 0, 0), Drawn("arrow", 2, 0, 0),
                   Drawn("triangle", 3, 10, 0), Drawn("line", 4, 0, 10) >>,
     lines |-> <<>>]

InitGroup ==
    /\ \E room \in {RoomA, RoomB} :
           /\ images = room.images
           /\ shapes = room.shapes
           /\ lines = room.lines
           /\ observed = room
    /\ InitLocal

NextGroup ==
    \/ Deliver
    \* the pointer is held from the first drag-move to the drag-end: no click in between
    \/ /\ Quiet /\ drag.phase = "none"
       /\ \E id \in AllIds, shift \in BOOLEAN : ClickEntity(id, shift)
    \/ /\ Quiet /\ DragRoom /\ Len(history) < MaxGestures
       /\ \E d \in Deltas : handleGroupDragMove(d[1], d[2])
    \/ Quiet /\ HistRoom(currentIndex) /\ handleGroupDragEnd

SpecGroup == InitGroup /\ [][NextGroup]_vars

(***************************************************************************)
(* SpecPaste: selection by click, copy and paste in a room that already    *)
(* holds entities of every kind.                                           *)
(***************************************************************************)
\* an image at the origin and a rectangle away from it
RoomC ==
    [images |-> << [id |-> MkId("image", 1, 1), url |-> "http://a/1.png",
                    x |-> 0, y |-> 0] >>,
     shapes |-> << Drawn("rectangle", 2, 10, 10) >>,
     lines |-> <<>>]

InitPaste ==
    /\ \E room \in {RoomA, RoomB, RoomC} :
           /\ images = room.images
           /\ shapes = room.shapes
           /\ lines = room.lines
           /\ observed = room
    /\ InitLocal

\* the pointer of a paste
PastePoint == Pt(3, 4)

NextPaste ==
    \/ Deliver
    \/ /\ Quiet
       /\ \E id \in AllIds, shift \in BOOLEAN :
              /\ shift => Len(selectedIds) < MaxSelected
              /\ ClickEntity(id, shift)
    \/ Quiet /\ handleCopy
    \/ /\ Quiet /\ rnd + ClipSize <= MaxRnd /\ HistRoom(currentIndex)
       /\ handlePaste(PastePoint)

SpecPaste == InitPaste /\ [][NextPaste]_vars

(* SpecPasteRemote: the same in the room of two entities, beside a remote  *)
(* participant who deletes a selected entity.                              *)
InitPasteRemote ==
    /\ images = RoomC.images
    /\ shapes = RoomC.shapes
    /\ lines = RoomC.lines
    /\ observed = RoomC
    /\ InitLocal

NextPasteRemote ==
    \/ NextPaste
    \/ \E i \in 1..Len(selectedIds) : RemoteDelete(selectedIds[i])

SpecPasteRemote == InitPasteRemote /\ [][NextPasteRemote]_vars

(***************************************************************************)
(* SpecMarquee: selection by click and by marquee, with and without Shift, *)
(* in a room that already holds entities of every kind.                    *)
(***************************************************************************)
\* where the pointer goes down on the empty stage
MarqueeStarts == {Pt(0, 0), Pt(6, 8)}

NextMarquee ==
    \/ /\ Quiet
       /\ \E id \in AllIds, shift \in BOOLEAN :
              /\ shift => Len(selectedIds) < MaxSelected
              /\ ClickEntity(id, shift)
    \/ \E p \in MarqueeStarts, shift \in BOOLEAN : MouseDown(p, "stage", shift)
    \/ \E p \in Pointers, shift \in BOOLEAN : MouseMove(p, shift)
    \/ MouseUp

SpecMarquee == InitGroup /\ [][NextMarquee]_vars

(***************************************************************************)
(* SpecStar: star gestures from two anchors to pointers at any distance,   *)
(* the anchor itself included.                                             *)
(***************************************************************************)
StarAnchors == {Pt(0, 0), Pt(-7, 5)}

StarPointers == {Pt(0, 0), Pt(1, 0), Pt(6, 8), Pt(-7, 5), Pt(-10, -3)}

NextStar ==
    \/ Deliver
    \/ Quiet /\ ~isDrawing /\ activeTool # "star" /\ SetActiveTool("star")
    \/ /\ activeTool = "star" /\ ~isDrawing /\ Len(history) < MaxHist
       /\ \E p \in StarAnchors : MouseDown(p, "stage", FALSE)
    \/ \E p \in StarPointers : MouseMove(p, FALSE)
    \/ MouseUp

SpecStar == Init /\ [][NextStar]_vars

(***************************************************************************)
(* SpecPen: freehand strokes beside a remote participant who starts        *)
(* strokes of their own and deletes lines.                                 *)
(***************************************************************************)
\* Date.now() of the remote participant at their pointer-down
RemoteTime == MaxTime + 1

NextPen ==
    \/ now < MaxTime /\ Tick
    \/ Deliver
    \/ Quiet /\ ~isDrawing /\ activeTool # "pen" /\ SetActiveTool("pen")
    \/ /\ activeTool = "pen" /\ ~isDrawing /\ Len(history) < MaxHist
       /\ MouseDown(Pt(0, 0), "stage", FALSE)
    \/ \E p \in Pointers : MouseMove(p, FALSE)
    \/ MouseUp
    \/ Quiet /\ Fits(1) /\ RemoteAddLine(RemoteTime, 6, 8)
    \/ Quiet /\ \E i \in 1..Len(lines) : RemoteDelete(lines[i].id)

SpecPen == Init /\ [][NextPen]_vars

(***************************************************************************)
(* SpecShape: shape gestures beside a remote participant who appends       *)
(* shapes, with tool changes at any moment.                                *)
(***************************************************************************)
GestureTools == {"rectangle", "star", "pen"}

NextShape ==
    \/ now < MaxTime /\ Tick
    \/ Deliver
    \/ Quiet /\ \E tool \in GestureTools : activeTool # tool /\ SetActiveTool(tool)
    \/ /\ activeTool \in GestureTools /\ ~isDrawing /\ Len(history) < MaxGestures
       /\ MouseDown(Pt(0, 0), "stage", FALSE)
    \/ \E p \in Pointers : MouseMove(p, FALSE)
    \/ MouseUp
    \/ Quiet /\ Fits(1) /\ RemoteAddShape(RemoteTime, 10, 10, 6, 8)
    \/ Quiet /\ Fits(1) /\ RemoteAddShape(RemoteTime, 10, 10, 3, 4)

SpecShape == Init /\ [][NextShape]_vars

(***************************************************************************)
(* SpecDrag: drags of one image, one shape or one line in a room that      *)
(* already holds entities of every kind, with undo and redo.               *)
(***************************************************************************)
\* where a dragged node is dropped
DragTargets == {Pt(3, 4), Pt(-5, 0)}

SingleDragRoom == drag.phase = "single" => drag.steps < MaxDragSteps

NextDrag ==
    \/ Deliver
    \/ /\ Quiet
       /\ \E i \in 1..Len(images), p \in DragTargets :
              /\ Pt(images[i].x, images[i].y) \notin DragTargets
              /\ handleImageDragEnd(images[i].id, p.x, p.y)
    \/ /\ Quiet /\ SingleDragRoom /\ Len(history) < MaxHist
       /\ \E i \in 1..Len(shapes), p \in DragTargets :
              handleShapeDragMove(shapes[i].id, p.x, p.y)
    \/ /\ Quiet /\ SingleDragRoom /\ Len(history) < MaxHist
       /\ \E i \in 1..Len(lines), d \in Deltas :
              handleLineDragMove(lines[i].id, d[1], d[2])
    \/ Quiet /\ HistRoom(currentIndex) /\ handleEntityDragEnd
    \/ Quiet /\ handleUndo
    \/ Quiet /\ handleRedo

SpecDrag == InitGroup /\ [][NextDrag]_vars

(***************************************************************************)
(* SpecKeys: selection by click and the Delete key, on entities dropped as *)
(* URLs, with undo and redo.                                               *)
(***************************************************************************)
NextKeys ==
    \/ Deliver
    \/ /\ Quiet /\ Fits(1) /\ rnd < MaxRnd /\ HistRoom(currentIndex)
       /\ \E url \in Urls : handleDropUrl(Pt(0, 0), url)
    \/ Quiet /\ \E id \in AllIds, shift \in BOOLEAN : ClickEntity(id, shift)
    \/ Quiet /\ HistRoom(currentIndex) /\ handleDelete
    \/ Quiet /\ HistRoom(currentIndex) /\ handleDeleteTwice
    \/ Quiet /\ handleUndo
    \/ Quiet /\ handleRedo

SpecKeys == Init /\ [][NextKeys]_vars

(***************************************************************************)
(* SpecBackup: the backup effect of a client that drops image URLs, beside *)
(* a remote participant who draws, in a room with or without a backup.     *)
(***************************************************************************)
EmptyModel == [images |-> <<>>, shapes |-> <<>>, lines |-> <<>>]

InitBackup ==
    /\ images = <<>>
    /\ shapes = <<>>
    /\ lines = <<>>
    /\ observed = EmptyModel
    /\ InitCanvas
    /\ rootKeys = {"images", "shapes", "lines"}
    /\ initLog = <<>>
    /\ backupObject \in {<<>>, << EmptyModel >>}
    /\ backupDeps = <<>>
    /\ backupTimers = <<>>
    /\ backupCalls = 0
    /\ others = <<>>
    /\ othersWithTimestamp = FALSE
    /\ marqueeBase = <<>>

NextBackup ==
    \/ Deliver
    \/ /\ Quiet /\ Fits(1) /\ rnd < MaxRnd /\ HistRoom(currentIndex)
       /\ \E url \in Urls : handleDropUrl(Pt(0, 0), url)
    \/ Fits(1) /\ RemoteAddShape(0, 0, 0, 6, 8)
    \/ \E headError \in BOOLEAN : checkAndCreateBackup(headError)
    \/ \E putError \in BOOLEAN : BackupTimer(putError)

SpecBackup == InitBackup /\ [][NextBackup]_vars

(***************************************************************************)
(* SpecInit: a client enters a room that was just created, with or without *)
(* a backup object; it drops image URLs beside a remote participant.       *)
(***************************************************************************)
\* a backup that holds one image
BackupA ==
    [images |-> << [id |-> MkId("image", 1, 1), url |-> "http://a/1.png",
                    x |-> 0, y |-> 0] >>,
     shapes |-> <<>>, lines |-> <<>>]

\* the room as RoomProvider's initialStorage creates it: every key holds []
InitInit ==
    /\ images = <<>>
    /\ shapes = <<>>
    /\ lines = <<>>
    /\ observed = EmptyModel
    /\ InitCanvas
    /\ rootKeys = {"images", "shapes", "lines"}
    /\ initLog = <<>>
    /\ backupObject \in {<<>>, << BackupA >>}
    /\ backupDeps = <<>>
    /\ backupTimers = <<>>
    /\ backupCalls = 0
    /\ others = <<>>
    /\ othersWithTimestamp = FALSE
    /\ marqueeBase = <<>>

NextInit ==
    \/ Deliver
    \/ /\ Len(initLog) < MaxInitRuns
       /\ \E getError \in BOOLEAN : initializeStorage(getError)
    \/ /\ Quiet /\ Fits(1) /\ rnd < MaxRnd /\ HistRoom(currentIndex)
       /\ \E url \in Urls : handleDropUrl(Pt(0, 0), url)
    \/ Fits(1) /\ RemoteAddShape(0, 0, 0, 6, 8)
    \/ Quiet /\ handleUndo
    \/ Quiet /\ handleRedo

SpecInit == InitInit /\ [][NextInit]_vars

(***************************************************************************)
(* SpecDrop: drops of files, of HTML and of text, with the upload of a     *)
(* dropped file, undo and redo.                                            *)
(***************************************************************************)
Chars(s) ==
    CASE s = "http:" -> << "h", "t", "t", "p", ":" >>
      [] s = "https:" -> << "h", "t", "t", "p", "s", ":" >>
      [] s = "httpx:" -> << "h", "t", "t", "p", "x", ":" >>
      [] s = "ftp:" -> << "f", "t", "p", ":" >>

Text(url, parses, protocol) ==
    << [url |-> url, parses |-> parses, protocol |-> Chars(protocol)] >>

FileDrop(type) == [files |-> << type >>, html |-> <<>>, text |-> <<>>]

TextDrop(text) == [files |-> <<>>, html |-> <<>>, text |-> text]

\* what is dropped: an image file, a text file, a file of unknown type; an <img> of a
\* page; nothing; text that is no URL; URLs of four protocols
Drops ==
    { FileDrop(<< "image", "/", "png" >>), FileDrop(<< "text", "/", "plain" >>),
      FileDrop(<<>>),
      [files |-> <<>>, html |-> << "http://a/1.png" >>, text |-> <<>>],
      TextDrop(<<>>),
      TextDrop(Text("hello", FALSE, "http:")),
      TextDrop(Text("http://a/1.png", TRUE, "http:")),
      TextDrop(Text("https://a/1.png", TRUE, "https:")),
      TextDrop(Text("httpx://a/1.png", TRUE, "httpx:")),
      TextDrop(Text("ftp://a/1.png", TRUE, "ftp:")) }

NextDrop ==
    \/ Deliver
    \/ /\ Quiet /\ Fits(1) /\ rnd < MaxRnd /\ HistRoom(currentIndex)
       /\ \E dt \in Drops : handleDrop(Pt(0, 0), dt)
    \/ /\ Quiet /\ upload # <<>> /\ HistRoom(upload[1].currentIndex)
       /\ \E url \in Urls : UploadResolved(url)
    \/ Quiet /\ UploadRejected
    \/ Quiet /\ handleUndo
    \/ Quiet /\ handleRedo

SpecDrop == Init /\ [][NextDrop]_vars

(***************************************************************************)
(* SpecView: wheel zoom and pan, zoom and pan buttons, the throttle of the *)
(* viewport writes, and undo and redo of one committed drop.               *)
(***************************************************************************)
\* a wheel event
Wheel(ctrlKey, shiftKey, deltaX, deltaY) ==
    [ctrlKey |-> ctrlKey, shiftKey |-> shiftKey, deltaX |-> deltaX, deltaY |-> deltaY]

\* zoom factors 2, 1/2, 0 and -1/2; a pan by (3, 0) and a fast pan by (0, -3)
Wheels ==
    { Wheel(TRUE, FALSE, 0, -100), Wheel(TRUE, FALSE, 0, 50), Wheel(TRUE, FALSE, 0, 100),
      Wheel(TRUE, FALSE, 0, 150), Wheel(FALSE, FALSE, 9, 0), Wheel(FALSE, TRUE, 0, -3) }

\* the viewport stays within MaxView of the origin on both axes
ViewRoom == Abs(viewport.x) <= MaxView /\ Abs(viewport.y) <= MaxView

NextView ==
    \/ inThrottle /\ now < MaxViewClock /\ Elapse(THROTTLE_LIMIT)
    \/ ThrottleTimeout
    \/ ViewRoom /\ \E e \in Wheels : handleWheel(Pt(6, 8), e)
    \/ onZoomIn
    \/ onZoomOut
    \/ PanRoom(PAN_AMOUNT, 0) /\ onPan(PAN_AMOUNT, 0)
    \/ /\ Quiet /\ Fits(1) /\ rnd < MaxViewDrops /\ HistRoom(currentIndex)
       /\ \E url \in Urls : handleDropUrl(Pt(0, 0), url)
    \/ Deliver
    \/ Quiet /\ handleUndo
    \/ Quiet /\ handleRedo

SpecView == Init /\ [][NextView]_vars

(***************************************************************************)
(* SpecThrottle: the same requests without the history, on a clock of half *)
(* throttle windows.                                                       *)
(***************************************************************************)
NextThrottle ==
    \/ now < MaxClock /\ Elapse(THROTTLE_LIMIT \div 2)
    \/ ThrottleTimeout
    \/ ViewRoom /\ \E e \in Wheels : handleWheel(Pt(6, 8), e)
    \/ onZoomIn
    \/ onZoomOut
    \/ PanRoom(PAN_AMOUNT, 0) /\ onPan(PAN_AMOUNT, 0)

SpecThrottle == Init /\ [][NextThrottle]_vars

(***************************************************************************)
(* SpecPresence: the cursor of a remote participant who moves, hides and   *)
(* leaves, while time passes and the local client drops image URLs.        *)
(***************************************************************************)
NextPresence ==
    \/ now < MaxPresenceClock /\ Elapse(CURSOR_TIMEOUT \div 2)
    \/ \E cursor \in {<<>>, << Pt(3, 4) >>} : RemotePresence(cursor)
    \/ RemoteLeaves
    \/ /\ Quiet /\ Fits(1) /\ rnd < MaxRnd /\ HistRoom(currentIndex)
       /\ \E url \in Urls : handleDropUrl(Pt(0, 0), url)
    \/ Deliver

SpecPresence == Init /\ [][NextPresence]_vars

(***************************************************************************)
(* Properties of the history (Spec, SpecEdit)                              *)
(***************************************************************************)
\* the model of a history entry
EntryModel(e) == [images |-> e.images, shapes |-> e.shapes, lines |-> e.lines]

\* C1: once the history holds at least one entry, the cursor satisfies
\* 0 <= currentIndex < history.length, after any sequence of commits, undos and redos.
C1_CursorInRange ==
    Len(history) >= 1 => (0 <= currentIndex /\ currentIndex < Len(history))

\* C2: immediately after any commit, history.length equals currentIndex + 1, so that
\* redo is then a no-op and nothing lies ahead of the cursor.
C2_LengthIsCursorPlusOne ==
    lastOp \in CommitOps => (Len(history) = currentIndex + 1 /\ ~canRedo)

\* C3: the entry a commit appends equals the images, shapes and lines of the shared
\* model as they are once the committing operation has finished: after a delete, a
\* paste and a discarded degenerate shape.
C3_EntryIsModelAfterCommit ==
    lastOp \in {"delete", "paste", "mouseup-discard"} =>
        (history # <<>> /\ EntryModel(history[Len(history)]) = Model)

\* C4: an undo with currentIndex > 0 decrements the cursor by one and leaves the shared
\* images, shapes and lines equal to those of the entry at the new cursor, whatever a
\* remote participant did to the model in between; redo with
\* currentIndex < history.length - 1 is symmetric.
C4_UndoRedoRestoreEntry ==
    [][ /\ (handleUndo /\ currentIndex > 0) =>
            /\ currentIndex' = currentIndex - 1
            /\ HistoryAt(currentIndex') # <<>>
            /\ Model' = EntryModel(HistoryAt(currentIndex')[1])
        /\ (handleRedo /\ currentIndex < Len(history) - 1) =>
            /\ currentIndex' = currentIndex + 1
            /\ HistoryAt(currentIndex') # <<>>
            /\ Model' = EntryModel(HistoryAt(currentIndex')[1]) ]_vars

\* C5: undo when currentIndex <= 0 changes nothing: images, shapes, lines, viewport,
\* history and cursor are unchanged; the same holds for redo when
\* currentIndex = history.length - 1.
C5_DisabledUndoRedoChangeNothing ==
    [][ ((handleUndo /\ currentIndex <= 0)
            \/ (handleRedo /\ currentIndex = Len(history) - 1)) =>
        UNCHANGED << images, shapes, lines, viewport, history, currentIndex >> ]_vars

\* a redo pressed at the last entry, which is also the first, over a model that a
\* remote participant changed since the entry was captured
C5_Witness ==
    /\ lastOp = "redo-disabled"
    /\ currentIndex = 0 /\ Len(history) = 1
    /\ EntryModel(history[1]) # Model

(***************************************************************************)
(* Properties of drawing (SpecDraw)                                        *)
(***************************************************************************)
\* C6: after any sequence of create operations, by one or by several clients of the
\* room, no two entities across images, shapes and lines have the same id.
C6_IdsUnique == Cardinality(AllIds) = TotalEntities

\* a gesture with a shape tool that was a pointer-down, pointer-moves and a pointer-up
\* and nothing else, and has ended
ShapeGestureEnded ==
    /\ gesture.phase = "ended"
    /\ gesture.clean
    /\ isShapeTool(gesture.tool)

\* the displacement of the gesture, from its pointer-down to its last pointer position
GestureDx == gesture.last.x - gesture.down.x

GestureDy == gesture.last.y - gesture.down.y

\* C7 as stated: for every shape tool, a pointer-down, pointer-moves and pointer-up whose
\* total displacement is below 5 world units in both axes leaves the shapes collection
\* as it was before the pointer-down.
C7_SmallDisplacementLeavesShapes ==
    (ShapeGestureEnded /\ Abs(GestureDx) < MIN_DRAG /\ Abs(GestureDy) < MIN_DRAG)
        => shapes = gesture.shapes

\* |width| < 5 and |height| < 5 of the shape the gesture has drawn, by tool: the circle's
\* width and height are twice its radius, the star's twice its size
SmallExtent ==
    CASE gesture.tool = "circle" ->
           4 * (GestureDx * GestureDx + GestureDy * GestureDy) < MIN_DRAG * MIN_DRAG
      [] gesture.tool = "star" ->
           2 * Max2(Abs(GestureDx), Abs(GestureDy)) < MIN_DRAG
      [] OTHER ->
           Abs(GestureDx) < MIN_DRAG /\ Abs(GestureDy) < MIN_DRAG

\* C7 (amended): for every shape tool, a pointer-down, pointer-moves and pointer-up that
\* leave a shape whose |width| and |height| are both below 5 (a displacement below 5 in
\* both axes for the rectangle, line, arrow and triangle, a distance below 2.5 for the
\* circle, a displacement below 2.5 in both axes for the star) leaves the shapes
\* collection as it was before the pointer-down.
C7_SmallExtentLeavesShapes ==
    (ShapeGestureEnded /\ SmallExtent) => shapes = gesture.shapes

\* a circle and a star drawn from (0,0) to (2,0) are discarded, beside a shape of the
\* remote participant that stays
C7_Witness ==
    /\ ShapeGestureEnded /\ SmallExtent
    /\ gesture.tool \in {"circle", "star"}
    /\ gesture.last # gesture.down
    /\ shapes # <<>>
    /\ lastOp = "mouseup-discard"

\* C8: a shape gesture that ends in a discarded degenerate shape appends no history
\* entry: history and cursor after the pointer-up equal those before the pointer-down.
C8_DiscardAppendsNoEntry ==
    (ShapeGestureEnded /\ lastOp = "mouseup-discard") =>
        (history = gesture.history /\ currentIndex = gesture.currentIndex)

(***************************************************************************)
(* Properties of the group drag (SpecGroup)                                *)
(***************************************************************************)
Collections == {"images", "shapes", "lines"}

\* what the remote participant holds is the last drag step half-applied: one collection
\* the step changes is as after the step, another one it changes is as before it
Torn ==
    /\ drag.phase = "dragging"
    /\ \E c1, c2 \in Collections :
           /\ c1 # c2
           /\ drag.pre[c1] # drag.post[c1]
           /\ drag.pre[c2] # drag.post[c2]
           /\ observed[c1] = drag.post[c1]
           /\ observed[c2] = drag.pre[c2]

\* C9: a group drag is never visible half-applied: no state of the shared model that a
\* remote participant can observe has some of the selected entities moved by the drag
\* delta and other selected entities, in another collection, not yet moved.
C9_GroupDragNeverTorn == ~Torn

\* s with dx added to every x and dy to every y of its coordinate pairs
PointsMovedBy(new, old, dx, dy) ==
    /\ Len(new) = Len(old)
    /\ \A j \in 1..Len(old) :
           new[j] = old[j] + (IF j % 2 = 1 THEN dx ELSE dy)

\* what a group-drag step with delta (dx, dy) does to the three collections
GroupStepEffect(dx, dy) ==
    /\ Len(images') = Len(images)
    /\ Len(shapes') = Len(shapes)
    /\ Len(lines') = Len(lines)
    /\ \A i \in 1..Len(images) :
           IF Includes(selectedIds, images[i].id)
           THEN images'[i] = [images[i] EXCEPT !.x = images[i].x + dx,
                                               !.y = images[i].y + dy]
           ELSE images'[i] = images[i]
    /\ \A i \in 1..Len(shapes) :
           IF ~Includes(selectedIds, shapes[i].id)
           THEN shapes'[i] = shapes[i]
           ELSE IF shapes[i].type \in {"rectangle", "circle"}
           THEN shapes'[i] = [shapes[i] EXCEPT !.x = shapes[i].x + dx,
                                               !.y = shapes[i].y + dy]
           ELSE /\ PointsMovedBy(shapes'[i].points, shapes[i].points, dx, dy)
                /\ shapes'[i] = [shapes[i] EXCEPT !.points = shapes'[i].points]
    /\ \A i \in 1..Len(lines) :
           IF Includes(selectedIds, lines[i].id)
           THEN /\ PointsMovedBy(lines'[i].points, lines[i].points, dx, dy)
                /\ lines'[i] = [lines[i] EXCEPT !.points = lines'[i].points]
           ELSE lines'[i] = lines[i]

\* C10: a group-drag step with delta (dx,dy) adds (dx,dy) to the x,y of every selected
\* image, rectangle and circle, and to every coordinate pair of the points of every
\* selected line, arrow, star and triangle shape and freehand line, and leaves every
\* unselected entity unchanged.
C10_GroupDragStepMovesSelection ==
    [][ \A d \in Deltas :
            handleGroupDragMove(d[1], d[2]) => GroupStepEffect(d[1], d[2]) ]_vars

\* a step has moved an image and a star, or a circle and an arrow, and left another
\* entity of the room where it was
C10_Witness ==
    /\ lastOp = "group-drag-move"
    /\ \E i \in 1..Len(shapes) :
           /\ shapes[i].type \in PointShapeTypes
           /\ shapes[i] # drag.pre.shapes[i]
    /\ \E i \in 1..Len(shapes) :
           /\ shapes[i].type \in {"rectangle", "circle"}
           /\ shapes[i] # drag.pre.shapes[i]
    /\ \E i \in 1..Len(shapes) : shapes[i] = drag.pre.shapes[i]

C12_SelectionExists ==
    \A i \in 1..Len(selectedIds) : selectedIds[i] \in AllIds

\* C13: at most one of marquee selection, freehand stroke and shape construction is in
\* progress in any state, and a pointer-down received while a gesture is in progress is
\* ignored: it creates no line or shape and starts no marquee.
C13_PointerDownIgnoredWhenBusy ==
    [][ /\ ~(isSelecting' /\ isDrawing')
        /\ ((isDrawing \/ isSelecting) /\ handleMouseDown(Pt(0, 0), "stage", FALSE)) =>
               UNCHANGED << lines, shapes, isSelecting, selectionStart >> ]_vars

\* C14: with the hand tool active, any pointer-down, pointer-move and pointer-up leaves
\* images, shapes, lines, the selection and the history unchanged.
C14_HandToolLeavesModel ==
    [][ (/\ activeTool = "hand"
         /\ \/ handleMouseDown(Pt(0, 0), "stage", FALSE)
            \/ \E p \in Pointers : handleMouseMove(p, FALSE)
            \/ handleMouseUp) =>
        UNCHANGED << images, shapes, lines, selectedIds, history >> ]_vars

\* C15: when two or more entities are selected, no image, shape or freehand line is
\* individually draggable; when exactly one entity is selected, that entity is
\* individually draggable.
C15_DragTargets ==
    /\ Len(selectedIds) >= 2 =>
           /\ images # <<>> => ~ImageDraggable
           /\ shapes # <<>> => ~ShapeDraggable
           /\ lines # <<>> => ~LineDraggable
    /\ Len(selectedIds) = 1 =>
           /\ (\E i \in 1..Len(images) : images[i].id = selectedIds[1]) => ImageDraggable
           /\ (\E i \in 1..Len(shapes) : shapes[i].id = selectedIds[1]) => ShapeDraggable
           /\ (\E i \in 1..Len(lines) : lines[i].id = selectedIds[1]) => LineDraggable

\* the ids of the selection that are ids of entities of the room
SelectedExisting == {id \in AllIds : Includes(selectedIds, id)}

\* C16: the group bounding box, and so the group-drag handle, is non-null exactly when
\* at least two currently existing entities are selected, for every mix of images,
\* rectangles, circles, vertex-based shapes and freehand lines.
C16_GroupBBoxIffMultiSelection ==
    (groupBBox # <<>>) <=> (Cardinality(SelectedExisting) >= 2)

(***************************************************************************)
(* Properties of paste (SpecPaste)                                         *)
(***************************************************************************)
\* the step is a paste with clipboard content
PasteStep == clipboard # <<>> /\ handlePaste(PastePoint)

\* the entities of s after the first n
After(s, n) == SubSeq(s, n + 1, Len(s))

\* the ids of the entities the step has added
PastedIds ==
    {After(images', Len(images))[i].id : i \in 1..(Len(images') - Len(images))}
        \cup {After(shapes', Len(shapes))[i].id : i \in 1..(Len(shapes') - Len(shapes))}
        \cup {After(lines', Len(lines))[i].id : i \in 1..(Len(lines') - Len(lines))}

\* C17: a paste gives every pasted entity an id that no entity already in the model and
\* no other pasted entity has, appends the pasted entities after the existing ones,
\* leaves every pre-existing entity unmodified, and sets the selection to exactly the
\* set of pasted ids.
C17_PasteMintsAppendsSelects ==
    [][ PasteStep =>
          /\ Len(images') = Len(images) + Len(clipboard[1].images)
          /\ Len(shapes') = Len(shapes) + Len(clipboard[1].shapes)
          /\ Len(lines') = Len(lines) + Len(clipboard[1].lines)
          /\ SubSeq(images', 1, Len(images)) = images
          /\ SubSeq(shapes', 1, Len(shapes)) = shapes
          /\ SubSeq(lines', 1, Len(lines)) = lines
          /\ Cardinality(PastedIds) = ClipSize
          /\ PastedIds \cap AllIds = {}
          /\ Range(selectedIds') = PastedIds
          /\ Len(selectedIds') = ClipSize ]_vars

\* two shapes have been pasted after the four of the room and are the selection
C17_Witness ==
    /\ lastOp = "paste"
    /\ Len(shapes) = 6
    /\ Len(selectedIds) = 2
    /\ selectedIds[1] = shapes[5].id /\ selectedIds[2] = shapes[6].id

\* the reference point of the first clipboard entity: images before shapes before lines
FirstRef(clip) ==
    IF clip.images # <<>> THEN Pt(clip.images[1].x, clip.images[1].y)
    ELSE IF clip.shapes # <<>> THEN Pt(clip.shapes[1].x, clip.shapes[1].y)
    ELSE IF clip.lines # <<>> THEN Pt(clip.lines[1].points[1], clip.lines[1].points[2])
    ELSE Pt(0, 0)

\* C18: a paste at world point P translates every copied entity by the single offset
\* P minus the reference point of the first clipboard entity, for every coordinate,
\* the points of vertex-based shapes and reference coordinates equal to 0 included.
C18_PasteTranslatesByOneOffset ==
    [][ PasteStep =>
          LET clip == clipboard[1]
              P == ToWorld(PastePoint)
              ox == P.x - FirstRef(clip).x
              oy == P.y - FirstRef(clip).y
              newImages == After(images', Len(images))
              newShapes == After(shapes', Len(shapes))
              newLines == After(lines', Len(lines))
          IN  /\ \A i \in 1..Len(clip.images) :
                     /\ newImages[i].x = clip.images[i].x + ox
                     /\ newImages[i].y = clip.images[i].y + oy
              /\ \A i \in 1..Len(clip.shapes) :
                     /\ newShapes[i].x = clip.shapes[i].x + ox
                     /\ newShapes[i].y = clip.shapes[i].y + oy
                     /\ PointsMovedBy(newShapes[i].points, clip.shapes[i].points, ox, oy)
              /\ \A i \in 1..Len(clip.lines) :
                     PointsMovedBy(newLines[i].points, clip.lines[i].points, ox, oy) ]_vars

\* the same for a clipboard of one shape other than a rectangle or a circle
C18_VertexShapeCase ==
    [][ (PasteStep /\ ClipSize = 1 /\ clipboard[1].shapes # <<>>) =>
          LET old == clipboard[1].shapes[1]
              new == shapes'[Len(shapes')]
          IN  PointsMovedBy(new.points, old.points, new.x - old.x, new.y - old.y) ]_vars

\* the same for a clipboard that begins with an image
C18_ZeroReferenceCase ==
    [][ (PasteStep /\ clipboard[1].images # <<>>) =>
          LET new == images'[Len(images) + 1]
          IN  new.x = ToWorld(PastePoint).x /\ new.y = ToWorld(PastePoint).y ]_vars

\* C19: each paste with a non-empty clipboard appends exactly one history entry, and a
\* paste with no clipboard content changes neither the model, the selection nor the
\* history.
C19_PasteCommitsOnce ==
    [][ /\ (handlePaste(PastePoint) /\ ClipSize > 0) =>
            /\ Len(history') = Len(history) + 1
            /\ SubSeq(history', 1, Len(history)) = history
            /\ currentIndex' = currentIndex + 1
        /\ (handlePaste(PastePoint) /\ ClipSize = 0) =>
            UNCHANGED << images, shapes, lines, selectedIds, history, currentIndex >> ]_vars

C20_SingleListenerCase ==
    [][ (handleDelete /\ Len(selectedIds) > 0) =>
            /\ images' = SeqFilter(NotSelected, images)
            /\ shapes' = SeqFilter(NotSelected, shapes)
            /\ lines' = SeqFilter(NotSelected, lines)
            /\ selectedIds' = <<>>
            /\ Len(history') = Len(SliceTo(history, currentIndex)) + 1
            /\ currentIndex' = currentIndex + 1 ]_vars

(***************************************************************************)
(* Properties of the room backup (SpecBackup)                              *)
(***************************************************************************)
\* C21: a client makes at most one createRoomBackup call, however many times images,
\* shapes or lines change before the delay elapses, and a run of the backup effect that
\* finds the backup object sets no timer.
C21_AtMostOneBackupCall ==
    /\ [](backupCalls <= 1)
    /\ [][(backupObject # <<>> /\ backupDeps' # backupDeps) =>
              backupTimers' = backupTimers]_vars

\* the same of a run of the effect that finds the backup object
C21_ExistingBackupCase ==
    [][(backupObject # <<>> /\ backupDeps' # backupDeps) =>
           backupTimers' = backupTimers]_vars

(***************************************************************************)
(* Properties of the initialization (SpecInit)                             *)
(***************************************************************************)
\* the first run of the initializer, in the room as it was created
FirstInitRun == initLog = <<>> /\ Model = EmptyModel /\ initLog' # initLog

Positions(s) == [i \in 1..Len(s) |-> << s[i].x, s[i].y >>]

\* C22: when a brand-new room is initialized and no backup exists, images becomes three
\* images at (1000,1000), (2200,1000) and (1000,2200) in that order, and shapes and lines
\* become empty.
C22_DefaultLayout ==
    [][(FirstInitRun /\ backupObject = <<>> /\ "failed" \notin Range(initLog')) =>
           /\ Positions(images') = << <<1000, 1000>>, <<2200, 1000>>, <<1000, 2200>> >>
           /\ shapes' = <<>>
           /\ lines' = <<>>]_vars

\* the same of the layout alone, as initializeStorage computes it
C22_GridCase ==
    Positions(initialImages) = << <<1000, 1000>>, <<2200, 1000>>, <<1000, 2200>> >>

\* C23: on the initialization of a brand-new room the backup is requested before
\* anything is written; the default layout is written if and only if the request
\* returned null, a returned state becomes the model, and a transport error leaves
\* everything as it was.
C23_RestoreBeforeDefault ==
    [][FirstInitRun =>
           /\ initLog'[1] = "restore"
           /\ ("write-default" \in Range(initLog')) <=>
                  (backupObject = <<>> /\ "failed" \notin Range(initLog'))
           /\ (backupObject # <<>> /\ "failed" \notin Range(initLog')) =>
                  Model' = backupObject[1]
           /\ ("failed" \in Range(initLog')) => Model' = Model]_vars

(***************************************************************************)
(* Properties of the drop (Spec, SpecDrop)                                 *)
(***************************************************************************)
\* C24: when the upload of a dropped file fails, the placeholder is removed from images,
\* no history entry is appended, and every other image of the model at that moment is
\* left as it is.
C24_FailedUploadRemovesPlaceholderOnly ==
    [][UploadRejected =>
           LET NotPlaceholder(img) == img.id # upload[1].loadingId
           IN  /\ images' = SeqFilter(NotPlaceholder, images)
               /\ UNCHANGED << shapes, lines, history, currentIndex >>]_vars

\* the same of the history alone
C24_HistoryCase ==
    [][UploadRejected => UNCHANGED << history, currentIndex >>]_vars


\* a dropped file that is no image
NotImageDrops ==
    {dt \in Drops : /\ dt.files # <<>>
                    /\ IF dt.files[1] = <<>> THEN TRUE ELSE dt.files[1][1] # "image"}

\* dropped text that is not an http or https URL
NotHttpDrops ==
    {dt \in Drops : /\ dt.files = <<>> /\ dt.html = <<>> /\ dt.text # <<>>
                    /\ \/ ~dt.text[1].parses
                       \/ dt.text[1].protocol \notin {Chars("http:"), Chars("https:")}}

\* C25: dropping a non-image file, or text that is not an http(s) URL, creates no entity
\* and appends no history entry.
C25_BadDropChangesNothing ==
    [][\A dt \in NotImageDrops \cup NotHttpDrops :
           handleDrop(Pt(0, 0), dt) =>
               UNCHANGED << images, shapes, lines, history, currentIndex >>]_vars

\* the same of the files alone
C25_FileCase ==
    [][\A dt \in NotImageDrops :
           handleDrop(Pt(0, 0), dt) =>
               UNCHANGED << images, shapes, lines, history, currentIndex >>]_vars

(***************************************************************************)
(* Properties of the viewport (SpecView)                                   *)
(***************************************************************************)
\* C26: in every reachable state MIN_SCALE <= viewport.scale <= MAX_SCALE, after any
\* sequence of wheel zooms (any delta, also one that makes the factor zero or negative),
\* zoom buttons, pans, undo and redo.
C26_ScaleInRange == MIN_SCALE <= viewport.scale /\ viewport.scale <= MAX_SCALE

\* an undo has restored the viewport of an entry committed at the largest scale, after
\* wheel zooms at the pointer had moved the viewport
C26_Witness ==
    /\ lastOp = "undo"
    /\ viewport.scale = MAX_SCALE
    /\ viewport.x # 0

InversePairs == { << -100, 50 >>, << 50, -100 >> }

\* the scale the zoom by delta d computes before it is clamped
RawScale(v, d) == (v.scale * (100 - d)) \div 100

Unclamped(v, d) == MIN_SCALE <= RawScale(v, d) /\ RawScale(v, d) <= MAX_SCALE

\* the zoom of v at pointer by delta d rounds nothing: its three quotients are integers
Exact(v, pointer, d) ==
    /\ (v.scale * (100 - d)) % 100 = 0
    /\ ((pointer.x - v.x) * ZoomAt(v, pointer, d).scale) % v.scale = 0
    /\ ((pointer.y - v.y) * ZoomAt(v, pointer, d).scale) % v.scale = 0

\* the viewport after a zoom at (6, 8) by the first delta of pq and then by the second
RoundTrip(pq) == ZoomAt(ZoomAt(viewport, Pt(6, 8), pq[1]), Pt(6, 8), pq[2])

C29_StaleCursorHidden == othersWithTimestamp => CursorFresh(others, now)

\* the same at the render that follows a presence update
C29_AtUpdateCase ==
    [][others' # others => (othersWithTimestamp' <=> CursorFresh(others', now'))]_vars


(***************************************************************************)
(* Properties of the marquee (SpecMarquee)                                 *)
(***************************************************************************)
\* the entities the marquee tests of handleMouseMove find in the rectangle shown
InMarquee(rect) == IF rect = <<>> THEN {} ELSE Range(MarqueeIds(rect[1]))

\* C30: during a marquee, after each pointer-move the selection is the set of entities
\* intersecting the current rectangle when Shift is not held, and the selection held at
\* the start of the marquee united with them when Shift is held; pointer-up then ends
\* the marquee without changing the selection and without appending a history entry.
C30_MarqueeSelection ==
    [][ /\ \A p \in Pointers, shift \in BOOLEAN :
               (isSelecting /\ selectionStart # <<>> /\ handleMouseMove(p, shift)) =>
                   Range(selectedIds') =
                       (IF shift THEN Range(marqueeBase) ELSE {})
                           \cup InMarquee(selectionRect')
        /\ (isSelecting /\ handleMouseUp) =>
               /\ ~isSelecting' /\ selectionRect' = <<>>
               /\ UNCHANGED << selectedIds, history, currentIndex >> ]_vars

\* the same without the Shift moves: a plain move replaces the selection, and pointer-up
\* ends the marquee and leaves selection and history alone
C30_PlainCase ==
    [][ /\ \A p \in Pointers :
               (isSelecting /\ selectionStart # <<>> /\ handleMouseMove(p, FALSE)) =>
                   Range(selectedIds') = InMarquee(selectionRect')
        /\ (isSelecting /\ handleMouseUp) =>
               /\ ~isSelecting' /\ selectionRect' = <<>>
               /\ UNCHANGED << selectedIds, history, currentIndex >> ]_vars

\* what a Shift move does: it unites the selection of the move before with the entities
\* in the rectangle
C30_ShiftCase ==
    [][ \A p \in Pointers :
            (isSelecting /\ selectionStart # <<>> /\ handleMouseMove(p, TRUE)) =>
                Range(selectedIds') = Range(selectedIds) \cup InMarquee(selectionRect')
      ]_vars


(***************************************************************************)
(* Properties of the vertex lists (SpecDraw, SpecStar)                     *)
(***************************************************************************)
\* points.length is even and at least 4
WellFormedPoints(shape) == Len(shape.points) % 2 = 0 /\ Len(shape.points) >= 4

\* C31: in every reachable state, also between the pointer-down and the first
\* pointer-move of a shape gesture, every line, arrow, star and triangle shape has a points
\* list whose length is even and at least 4.
C31_PointsWellFormed ==
    \A i \in 1..Len(shapes) :
        shapes[i].type \in PointShapeTypes => WellFormedPoints(shapes[i])

\* the same for the two kinds that pointer-down creates with a points list
C31_LineArrowCase ==
    \A i \in 1..Len(shapes) :
        shapes[i].type \in {"line", "arrow"} => WellFormedPoints(shapes[i])

\* the same for every kind once a pointer-move of the gesture has recomputed the shape
C31_AfterMoveCase ==
    (lastOp = "mousemove-shape" /\ shapes[Len(shapes)].type \in PointShapeTypes) =>
        WellFormedPoints(shapes[Len(shapes)])


\* the square of the distance of vertex v (0..9) of a star from its centre
StarRadius2(shape, v) ==
    (shape.points[2 * v + 1] - shape.x) * (shape.points[2 * v + 1] - shape.x)
        + (shape.points[2 * v + 2] - shape.y) * (shape.points[2 * v + 2] - shape.y)

\* 20 numbers: ten vertices, the first straight above the centre at the outer radius,
\* and each outer vertex at least as far from the centre as the inner one after it
TenVertices(shape) ==
    /\ Len(shape.points) = 20
    /\ shape.points[1] = shape.x
    /\ shape.points[2] = shape.y - shape.width \div 2
    /\ \A k \in 0..4 : StarRadius2(shape, 2 * k) >= StarRadius2(shape, 2 * k + 1)
    /\ shape.width > 4 =>
           \A k \in 0..4 : StarRadius2(shape, 2 * k) > StarRadius2(shape, 2 * k + 1)

\* C32: calculateStarPoints returns exactly 20 numbers (10 vertices, alternating outer and
\* inner) for every center and every size, including size 0.
C32_StarHasTwentyNumbers ==
    (lastOp = "mousemove-shape" /\ shapes[Len(shapes)].type = "star") =>
        TenVertices(shapes[Len(shapes)])

\* a star of size 0 around a centre away from the origin
C32_Witness ==
    /\ lastOp = "mousemove-shape"
    /\ shapes[Len(shapes)].type = "star"
    /\ shapes[Len(shapes)].width = 0
    /\ shapes[Len(shapes)].x = -7
    /\ Len(shapes[Len(shapes)].points) = 20


(***************************************************************************)
(* Properties of the upload of a dropped file (Spec)                       *)
(***************************************************************************)
\* C33: if the upload of a dropped image file succeeds, then afterwards images contains
\* an entity with the placeholder's id and position whose url is the returned URL,
\* exactly one history entry is appended, and images added while the upload was in
\* flight are still present.
C33_UploadSuccessKeepsImages ==
    [][ \A url \in Urls :
            UploadResolved(url) =>
                /\ \E i \in 1..Len(images') :
                       images'[i] = [upload[1].loadingImage EXCEPT !.url = url]
                /\ Len(history') = Len(SliceTo(history, currentIndex)) + 1
                /\ SubSeq(history', 1, Len(history') - 1) = SliceTo(history, currentIndex)
                /\ currentIndex' = currentIndex + 1
                /\ \A i \in 1..Len(images) :
                       images[i].id # upload[1].loadingId =>
                           images[i] \in Range(images') ]_vars

\* what the success path leaves in images: the images of the drop, without the
\* placeholder and without the uploaded image (unless an undo had already brought an
\* entity with the placeholder's id back before the drop)
C33_DropTimeImagesCase ==
    [][ \A url \in Urls :
            (/\ UploadResolved(url)
             /\ \A i \in 1..Len(upload[1].images) :
                    upload[1].images[i].id # upload[1].loadingId) =>
                images' = upload[1].images ]_vars

\* one entry is appended when no other commit happened while the upload was in flight
C33_HistoryCase ==
    [][ \A url \in Urls :
            (UploadResolved(url) /\ upload[1].currentIndex = currentIndex) =>
                /\ Len(history') = Len(SliceTo(history, currentIndex)) + 1
                /\ SubSeq(history', 1, Len(history') - 1) = SliceTo(history, currentIndex)
                /\ currentIndex' = currentIndex + 1 ]_vars


(***************************************************************************)
(* Properties of a gesture beside a remote participant (SpecPen,           *)
(* SpecShape)                                                              *)
(***************************************************************************)
\* a pointer-move of a pen gesture that began with a pointer-down of the pen
PenMove(p) ==
    /\ isDrawing /\ activeTool = "pen"
    /\ gesture.phase = "drawing" /\ gesture.tool = "pen"
    /\ handleMouseMove(p, FALSE)

\* C34: during a pen gesture each pointer-move appends the current point only to the
\* line created by that gesture's pointer-down; a line added by a remote participant
\* while the stroke is in progress is never modified by the local stroke, and a
\* pointer-move never fails when the lines collection has become empty.
C34_PenMoveAppendsToOwnLine ==
    [][ \A p \in Pointers :
            PenMove(p) =>
                /\ lastOp' # "mousemove-throw"
                /\ Len(lines') = Len(lines)
                /\ \A i \in 1..Len(lines) :
                       lines'[i] = IF lines[i].id = gesture.id
                                   THEN [lines[i] EXCEPT !.points =
                                            @ \o << ToWorld(p).x, ToWorld(p).y >>]
                                   ELSE lines[i] ]_vars

\* the same while the line of the gesture is the last of the collection
C34_OwnLineLastCase ==
    [][ \A p \in Pointers :
            (/\ PenMove(p)
             /\ lines # <<>>
             /\ lines[Len(lines)].id = gesture.id) =>
                /\ lastOp' # "mousemove-throw"
                /\ Len(lines') = Len(lines)
                /\ \A i \in 1..Len(lines) :
                       lines'[i] = IF i = Len(lines)
                                   THEN [lines[i] EXCEPT !.points =
                                            @ \o << ToWorld(p).x, ToWorld(p).y >>]
                                   ELSE lines[i] ]_vars

\* the pointer-move that fails: the pen is down and the lines collection is empty
C34_ThrowCase ==
    [][ \A p \in Pointers :
            (PenMove(p) /\ lines # <<>>) => lastOp' # "mousemove-throw" ]_vars


\* a shape gesture is in progress: the drawing flag is set by the pointer-down of a
\* shape tool
ShapeGesture ==
    isDrawing /\ gesture.phase = "drawing" /\ isShapeTool(gesture.tool)

\* every shape but the one of the gesture is in the collection afterwards, as it was
OtherShapesKept ==
    \A i \in 1..Len(shapes) :
        shapes[i].id # gesture.id => shapes[i] \in Range(shapes')

\* C35: during a shape gesture pointer-move and pointer-up recompute or discard only the
\* shape created by that gesture's pointer-down: no shape that was already committed, and
\* no shape appended meanwhile by a remote participant, has its geometry changed or is
\* removed by the gesture, also when the active tool is changed while the drawing flag
\* is still set.
C35_GestureTouchesOwnShapeOnly ==
    [][ /\ \A p \in Pointers :
               (ShapeGesture /\ handleMouseMove(p, FALSE)) => OtherShapesKept
        /\ (ShapeGesture /\ handleMouseUp) => OtherShapesKept ]_vars

\* the same while the shape of the gesture is the last of the collection
C35_OwnShapeLastCase ==
    [][ /\ \A p \in Pointers :
               (/\ ShapeGesture /\ shapes # <<>>
                /\ shapes[Len(shapes)].id = gesture.id
                /\ handleMouseMove(p, FALSE)) => OtherShapesKept
        /\ (/\ ShapeGesture /\ shapes # <<>>
            /\ shapes[Len(shapes)].id = gesture.id
            /\ handleMouseUp) => OtherShapesKept ]_vars


(***************************************************************************)
(* Properties of the drag of one entity (SpecDrag)                         *)
(***************************************************************************)
\* one entry is appended after the entries up to the cursor, and the cursor moves to it
OneEntryAppended ==
    /\ Len(history') = Len(SliceTo(history, currentIndex)) + 1
    /\ SubSeq(history', 1, Len(history') - 1) = SliceTo(history, currentIndex)
    /\ currentIndex' = currentIndex + 1

\* C36: the end of a single-entity drag appends exactly one history entry for every
\* kind of entity: dragging one image and releasing it commits an entry just as
\* dragging one shape or one freehand line does.
C36_SingleDragEndCommitsOnce ==
    [][ /\ handleEntityDragEnd => OneEntryAppended
        /\ \A i \in 1..Len(images), p \in DragTargets :
               handleImageDragEnd(images[i].id, p.x, p.y) => OneEntryAppended ]_vars

\* the same for the drag of one shape and of one freehand line
C36_ShapeLineCase ==
    [][ handleEntityDragEnd =>
            /\ OneEntryAppended
            /\ history'[Len(history')] = stateRef ]_vars

\* the end of the drag of one image leaves the history as it was
C36_ImageCase ==
    [][ \A i \in 1..Len(images), p \in DragTargets :
            handleImageDragEnd(images[i].id, p.x, p.y) =>
                UNCHANGED << history, currentIndex >> ]_vars


(***************************************************************************)
(* Properties of undo followed by redo (SpecEdit, SpecView)                *)
(***************************************************************************)
\* C37: from any state reached right after a commit (draw, delete, paste, drag), with no
\* remote edits in between, an undo followed immediately by a redo restores the images,
\* shapes and lines that were in the model just before the undo.
C37_UndoRedoRoundTrip ==
    [][ (/\ gesture.phase = "undone"
         /\ handleRedo) => Model' = gesture.model ]_vars

\* the same after the commits that pass the new collections to addHistoryEntry
C37_DropCase ==
    [][ (/\ gesture.phase = "undone"
         /\ gesture.after = "drop-url"
         /\ handleRedo) => Model' = gesture.model ]_vars

\* what the redo restores: the entry the commit appended
C37_RedoRestoresEntryCase ==
    [][ (/\ gesture.phase = "undone"
         /\ handleRedo) =>
            Model' = EntryModel(history[currentIndex + 2]) ]_vars


\* C38: after every undo or redo that takes effect, the local viewport equals the
\* viewport stored in the entry at the new cursor, also when another viewport write was
\* applied less than 16 ms earlier.
C38_UndoRedoRestoreViewport ==
    [][ /\ (handleUndo /\ lastOp' = "undo") =>
               viewport' = history[currentIndex' + 1].viewport
        /\ (handleRedo /\ lastOp' = "redo") =>
               viewport' = history[currentIndex' + 1].viewport ]_vars

\* the same when no viewport write was applied in the 16 ms before
C38_IdleCase ==
    [][ /\ (~inThrottle /\ handleUndo /\ lastOp' = "undo") =>
               viewport' = history[currentIndex' + 1].viewport
        /\ (~inThrottle /\ handleRedo /\ lastOp' = "redo") =>
               viewport' = history[currentIndex' + 1].viewport ]_vars

\* inside the 16 ms an undo or redo that takes effect leaves the viewport as it is
C38_ThrottledCase ==
    [][ (/\ inThrottle
         /\ \/ handleUndo /\ lastOp' = "undo"
            \/ handleRedo /\ lastOp' = "redo") => viewport' = viewport ]_vars


(***************************************************************************)
(* Properties of the first commit and of the initialization (SpecInit,     *)
(* SpecJoin)                                                               *)
(***************************************************************************)
\* the room has loaded and the user has completed the first committed gesture of the
\* session, the drop of an image URL
FirstCommitDone ==
    initLog # <<>> /\ lastOp = "drop-url" /\ Len(history) = 1

\* C39: after the room has loaded and the user completes one committed gesture, undo is
\* enabled and restores images, shapes and lines to what they were when the room loaded.
C39_FirstGestureUndoable ==
    [][ (FirstCommitDone /\ handleUndo) =>
            /\ lastOp' = "undo"
            /\ images' = SubSeq(images, 1, Len(images) - 1)
            /\ shapes' = shapes
            /\ lines' = lines ]_vars

\* after the first commit the cursor is 0 and undo is disabled
C39_FirstCommitCase == FirstCommitDone => (currentIndex = 0 /\ ~canUndo)

\* the undo after the first commit changes nothing
C39_DisabledCase ==
    [][ (FirstCommitDone /\ handleUndo) =>
            (lastOp' = "undo-disabled" /\ UNCHANGED << images, shapes, lines >>) ]_vars


\* some client has written images, shapes or lines to the room
RoomHasContent == Model # EmptyModel \/ observed # EmptyModel

\* C40: room initialization never overwrites content: once any client has written
\* images, shapes or lines to the room, no other client's initialization (default layout
\* or restored backup, completing after an asynchronous restoreRoom call) replaces a
\* collection of the shared model.
C40_InitKeepsContent ==
    [][ \A getError \in BOOLEAN :
            (RoomHasContent /\ initializeStorage(getError)) =>
                UNCHANGED << images, shapes, lines, pending, observed >> ]_vars

\* an initialization has run in a room that held a shape of the remote participant and
\* a backup object existed
C40_Witness ==
    /\ lastOp = "initialize"
    /\ shapes # <<>>
    /\ backupObject # <<>>
    /\ initLog = << "existing" >>

====
